---------------------------- MODULE Spec2Model ----------------------------
(***************************************************************************)
(* A model of node-zklib-typescript: the transport orchestrator (ZKLib),  *)
(* the two transports (ZKLibTCP, ZKLibUDP) with their listener/timer      *)
(* driven exchanges, and the frame codec they share.                      *)
(*                                                                         *)
(* The specifications of this module:                                     *)
(*   SpecOrch        the orchestrator: createSocket's fallback decision   *)
(*                   tree and functionWrapper's dispatch, over both       *)
(*                   transports' socket references;                       *)
(*   SpecDisconnect  the orchestrator with the public disconnect;         *)
(*   Spec            one transport instance (tcp or udp, chosen           *)
(*                   initially): its socket listeners, timers, pending    *)
(*                   write callbacks and the exchanges writeMessage /     *)
(*                   requestData / readWithBuffer / getRealTimeLogs,      *)
(*                   against an arbitrary device;                         *)
(*   SpecCmd         the same transport with executeCmd and               *)
(*                   getRealTimeLogs only;                                *)
(*   SpecSession     commands, bulk reads and the subscription under a    *)
(*                   session;                                             *)
(*   SpecChunk       bulk reads early and late in a session, with sizes   *)
(*                   around the multiples of MAX_CHUNK;                   *)
(*   SpecProgress    bulk reads of one chunk and of two, with their data  *)
(*                   frames;                                              *)
(*   SpecTeardown    commands and disconnect, with and without a          *)
(*                   configured timeout;                                  *)
(*   SpecClose       every operation, then the disconnect;                *)
(*   SpecCodec       the codec functions applied to drawn arguments;      *)
(*   SpecDecode      the record loops applied to bulk results;            *)
(*   SpecForward     the orchestrator with every forwarded operation;     *)
(*   SpecSeq         the session/sequence state alone, over long runs.    *)
(***************************************************************************)
EXTENDS Integers, Sequences, FiniteSets, TLC

(***************************************************************************)
(* Program constants.                                                      *)
(***************************************************************************)
\* constants.ts is not among the sources.  The value is the one under which
\* createChkSum's USHRT_MAX - chksum - 1 is the documented 65535 - sum - 1.
USHRT_MAX == 65535
\* constants.ts is not among the sources; the value is the protocol's.
MAX_CHUNK == 65472

CMD_CONNECT == 1000
CMD_EXIT == 1001
CMD_PREPARE_DATA == 1500
CMD_DATA == 1501
CMD_FREE_DATA == 1502
CMD_DATA_WRRQ == 1503
CMD_DATA_RDY == 1504
CMD_GET_TIME == 201
CMD_REG_EVENT == 500
CMD_ACK_OK == 2000
CMD_ACK_ERROR == 2001
EF_ATTLOG == 1

ECONNREFUSED == "ECONNREFUSED"
ECONNRESET == "ECONNRESET"
EADDRINUSE == "EADDRINUSE"
ETIMEDOUT == "ETIMEDOUT"
\* an Error object that carries no code (the exchange timeouts)
NOCODE == "NOCODE"

(***************************************************************************)
(* Bounds of the model.                                                    *)
(***************************************************************************)
\* createSocket calls made on one ZKLib instance
MaxCalls == 3
\* operations the caller starts on one transport
MaxOps == 2
\* frames the device sends to one transport
MaxFrames == 3
\* the session id the device assigns
DevSession == 7
\* the sequence counter in the long runs: past the 16-bit range
MaxReplyId == 65537
\* bytes of a buffer given to createChkSum or removeTcpHeader
MaxLen == 4
\* bytes of a payload given to createUDPHeader
MaxData == 3
\* bytes of a bulk result given to the record loops of getUsers / getAttendances
MaxBulk == 150

VARIABLES
    \* ---- orchestrator (ZKLib) ----
    connectionType,   \* "null" | "tcp" | "udp"
    tcpSocket,        \* zklibTcp.socket: "null" | "set"
    tcpObj,           \* the latest TCP socket object: none/connecting/connected/destroyed/ended/closed
    tcpReplied,       \* that object has carried the reply of a handshake
    tcpOld,           \* earlier TCP socket objects whose 'close' is still to be emitted
    udpSocket,        \* zklibUdp.socket: "null" | "set"
    udpObj,           \* the latest UDP socket object: none/binding/listening/unbound/closed
    pc,               \* position of the createSocket call in progress
    call,             \* what the createSocket call in progress (or the last one) has done
    calls,            \* createSocket calls made
    dispatch,         \* what the last getUsers call was forwarded to
    disc,             \* the public disconnect call: its position, then its outcome
    fwd,              \* the forwarded operation called last: its transport, its outcome
    \* ---- one transport (ZKLibTCP or ZKLibUDP) ----
    tp,               \* "tcp" | "udp": which class this instance is
    timeout,          \* this.timeout, as given to the constructor
    sessionId,        \* this.sessionId (NoSession: null)
    replyId,          \* this.replyId
    listeners,        \* the socket's 'data' / 'message' listeners, in registration order
    timers,           \* pending timers
    writes,           \* write / send callbacks still to be called
    ex,               \* the exchanges started so far, each with its closure's variables
    busy,             \* the exchange the caller awaits (0: none)
    lastSent,         \* header fields of the frame written last
    lastFrame,        \* the inbound frame emitted last
    delivered,        \* onEvent invocations that frame caused
    nframes,          \* inbound frames emitted so far
    \* ---- the frame codec ----
    codec             \* the last call of a codec or record-decoding function: its
                      \* arguments and result

orchVars == <<connectionType, tcpSocket, tcpObj, tcpReplied, tcpOld, udpSocket, udpObj,
              pc, call, calls, dispatch, disc, fwd>>

tpVars == <<tp, timeout, sessionId, replyId, listeners, timers, writes, ex, busy,
            lastSent, lastFrame, delivered, nframes>>

vars == <<connectionType, tcpSocket, tcpObj, tcpReplied, tcpOld, udpSocket, udpObj,
          pc, call, calls, dispatch, disc, fwd,
          tp, timeout, sessionId, replyId, listeners, timers, writes, ex, busy,
          lastSent, lastFrame, delivered, nframes, codec>>

(***************************************************************************)
(* ZKLib: the orchestrator.                                                *)
(***************************************************************************)
TcpOpenErrors == {ECONNREFUSED, ETIMEDOUT, ECONNRESET}
\* a handshake fails by its timer (no code) or by a write error
HandshakeErrors == {NOCODE, ECONNRESET, ECONNREFUSED}
UdpOpenErrors == {EADDRINUSE, "EACCES"}
\* the UDP handshake fails as the TCP one does, or by a send error with the code
\* the system call failed with
UdpHandshakeErrors == HandshakeErrors \cup {EADDRINUSE}

NewCall == [tcpErr |-> "none", tcpOpened |-> FALSE, udpCreated |-> FALSE,
            udpReused |-> FALSE, udpHandshake |-> FALSE, udpOk |-> FALSE,
            udpErr |-> "none", selected |-> "none", outcome |-> "pending"]

\* the device address given to the constructor
Ip == "192.168.1.201"

\* no forwarded operation called yet
NoForward == [op |-> "none", to |-> "none", st |-> "none", err |-> "none",
              tag |-> "none", command |-> "none", ip |-> "none"]

InitOrchVars ==
    /\ connectionType = "null"
    /\ tcpSocket = "null"
    /\ tcpObj = "none"
    /\ tcpReplied = FALSE
    /\ tcpOld = 0
    /\ udpSocket = "null"
    /\ udpObj = "none"
    /\ pc = "idle"
    /\ call = [NewCall EXCEPT !.outcome = "none"]
    /\ calls = 0
    /\ dispatch = "none"
    /\ disc = "none"
    /\ fwd = NoForward

\* sessionId: number | null = null
NoSession == -1

\* no frame received yet
NoFrame == [id |-> 0, cmd |-> 0, sess |-> 0, len |-> 0, size |-> 0, re |-> 0]

\* no frame written yet
NoSent == [cmd |-> 0, sess |-> 0, seq |-> 0]

\* no codec function called yet
NoCodec == [fn |-> "none"]

\* a timeout given to the constructor
DefaultTimeout == 5000

\* the transport as constructed: no session, no socket listeners, nothing pending
IdleTransport ==
    /\ sessionId = NoSession
    /\ replyId = 0
    /\ listeners = <<>>
    /\ timers = {}
    /\ writes = {}
    /\ ex = <<>>
    /\ busy = 0
    /\ lastSent = NoSent
    /\ lastFrame = NoFrame
    /\ delivered = 0
    /\ nframes = 0

InitOrch ==
    InitOrchVars /\ tp = "tcp" /\ timeout = DefaultTimeout /\ IdleTransport /\ codec = NoCodec

\* a slip: every TCP failure falls back
FallsBackAlways(code) == TRUE

\* catch (err): err.code !== ERROR_TYPES.ECONNREFUSED is fatal
FallsBackToUdp(code) == code = ECONNREFUSED

\* a slip: every failure of the UDP attempt is fatal
UdpErrorIsFatalAlways(code) == TRUE

\* catch (udpErr): udpErr.code !== 'EADDRINUSE' is fatal
UdpErrorIsFatal(code) == code # EADDRINUSE

\* a slip: the 'udp' case runs the TCP callback
FunctionWrapperSwapped(ct, tcpS, udpS) ==
    CASE ct = "tcp" -> IF tcpS # "null" THEN "tcp" ELSE "not connected"
      [] ct = "udp" -> IF udpS # "null" THEN "tcp" ELSE "not connected"
      [] OTHER -> "not connected"

\* a slip: the selected transport's callback runs whatever its socket reference
FunctionWrapperAnySocket(ct, tcpS, udpS) ==
    CASE ct = "tcp" -> "tcp"
      [] ct = "udp" -> "udp"
      [] OTHER -> "not connected"

\* functionWrapper: which callback runs
FunctionWrapper(ct, tcpS, udpS) ==
    CASE ct = "tcp" -> IF tcpS # "null" THEN "tcp" ELSE "not connected"
      [] ct = "udp" -> IF udpS # "null" THEN "udp" ELSE "not connected"
      [] OTHER -> "not connected"

\* zklibTcp.createSocket(): this.socket = new Socket(); the object it replaces,
\* if its 'close' is still to come, keeps its listener on this transport
TcpCreateSocket ==
    /\ tcpSocket' = "set"
    /\ tcpObj' = "connecting"
    /\ tcpReplied' = FALSE
    /\ tcpOld' = IF tcpObj \in {"connecting", "connected", "destroyed", "ended"}
                 THEN tcpOld + 1 ELSE tcpOld

\* positions of a disconnect() call that has not returned
DisconnectBusy == {"tcp exit", "tcp close", "udp exit", "udp close"}

\* createSocket(), up to its first await
CreateSocket ==
    /\ UNCHANGED <<tpVars, disc, fwd, codec>>
    /\ pc = "idle"
    /\ disc \notin DisconnectBusy
    /\ calls < MaxCalls
    /\ calls' = calls + 1
    /\ dispatch' = "none"
    /\ IF tcpSocket = "null"
       THEN /\ TcpCreateSocket
            /\ pc' = "tcp open"
            /\ call' = [NewCall EXCEPT !.tcpOpened = TRUE]
            /\ UNCHANGED connectionType
       ELSE /\ connectionType' = "tcp"
            /\ pc' = "idle"
            /\ call' = [NewCall EXCEPT !.selected = "tcp", !.outcome = "resolved"]
            /\ UNCHANGED <<tcpSocket, tcpObj, tcpReplied, tcpOld>>
    /\ UNCHANGED <<udpSocket, udpObj>>

\* zklibTcp.disconnect(), called in the catch block: executeCmd(CMD_EXIT) registers
\* its listener and writes only when this.socket is set; otherwise writeMessage
\* does nothing and its promise stays pending
TcpDisconnectStart(code) ==
    /\ call' = [call EXCEPT !.tcpErr = code]
    /\ pc' = IF tcpSocket = "null" THEN "tcp exit stuck" ELSE "tcp exit"

\* 'connect': zklibTcp.createSocket resolves, zklibTcp.connect() sends the handshake
TcpOpenOk ==
    /\ UNCHANGED <<tpVars, disc, fwd, codec>>
    /\ pc = "tcp open"
    /\ tcpObj = "connecting"
    /\ tcpObj' = "connected"
    /\ UNCHANGED tcpReplied
    /\ pc' = IF tcpSocket = "null" THEN "tcp handshake stuck" ELSE "tcp handshake"
    /\ UNCHANGED <<connectionType, tcpSocket, tcpOld, udpSocket, udpObj, call,
                   calls, dispatch>>

\* 'error' while connecting: zklibTcp.createSocket rejects, the catch block runs
TcpOpenFail(code) ==
    /\ UNCHANGED <<tpVars, disc, fwd, codec>>
    /\ pc = "tcp open"
    /\ tcpObj = "connecting"
    /\ tcpObj' = "destroyed"
    /\ UNCHANGED tcpReplied
    /\ TcpDisconnectStart(code)
    /\ UNCHANGED <<connectionType, tcpSocket, tcpOld, udpSocket, udpObj, calls,
                   dispatch>>

\* the handshake's reply: connect() resolves, this.connectionType = 'tcp'
TcpHandshakeOk ==
    /\ UNCHANGED <<tpVars, disc, fwd, codec>>
    /\ pc = "tcp handshake"
    /\ tcpObj = "connected"
    /\ connectionType' = "tcp"
    /\ call' = [call EXCEPT !.selected = "tcp", !.outcome = "resolved"]
    /\ pc' = "idle"
    /\ tcpReplied' = TRUE
    /\ UNCHANGED <<tcpSocket, tcpObj, tcpOld, udpSocket, udpObj, calls, dispatch>>

\* the handshake's timer or write error: connect() rejects, the catch block runs
TcpHandshakeFail(code) ==
    /\ UNCHANGED <<tpVars, disc, fwd, codec>>
    /\ pc = "tcp handshake"
    /\ tcpObj' = IF code = NOCODE THEN tcpObj
                 ELSE IF tcpObj = "closed" THEN "closed" ELSE "destroyed"
    /\ UNCHANGED tcpReplied
    /\ TcpDisconnectStart(code)
    /\ UNCHANGED <<connectionType, tcpSocket, tcpOld, udpSocket, udpObj, calls,
                   dispatch>>

\* the exit exchange settles (reply, write error or timer; the outcome is ignored):
\* closeSocket() ends the socket when this.socket is set
TcpExitSettled ==
    /\ UNCHANGED <<tpVars, disc, fwd, codec>>
    /\ pc = "tcp exit"
    /\ pc' = "tcp close"
    /\ tcpObj' = IF tcpSocket = "set" /\ tcpObj = "connected" THEN "ended" ELSE tcpObj
    /\ UNCHANGED tcpReplied
    /\ UNCHANGED <<connectionType, tcpSocket, tcpOld, udpSocket, udpObj, call,
                   calls, dispatch>>

\* zklibUdp.createSocket(): this.socket = dgram.createSocket('udp4'); bind
UdpCreateSocket ==
    /\ udpSocket' = "set"
    /\ udpObj' = "binding"

\* closeSocket() resolves (end callback or its 2000 timer); the catch block goes on:
\* a failure other than ECONNREFUSED is rejected, a refusal tries UDP
TcpCloseSocketDone ==
    /\ UNCHANGED <<tpVars, disc, fwd, codec>>
    /\ pc = "tcp close"
    /\ IF ~FallsBackToUdp(call.tcpErr)
       THEN /\ call' = [call EXCEPT !.outcome = "TCP CONNECT"]
            /\ pc' = "idle"
            /\ UNCHANGED <<connectionType, udpSocket, udpObj>>
       ELSE IF udpSocket = "null"
       THEN /\ UdpCreateSocket
            /\ call' = [call EXCEPT !.udpCreated = TRUE]
            /\ pc' = "udp open"
            /\ UNCHANGED connectionType
       ELSE /\ connectionType' = "udp"
            /\ call' = [call EXCEPT !.udpReused = TRUE, !.selected = "udp",
                                    !.outcome = "resolved"]
            /\ pc' = "idle"
            /\ UNCHANGED <<udpSocket, udpObj>>
    /\ UNCHANGED <<tcpSocket, tcpObj, tcpReplied, tcpOld, calls, dispatch>>

\* 'close' of the latest TCP socket object: this.socket = null
TcpClose ==
    /\ UNCHANGED <<tpVars, disc, fwd, codec>>
    /\ tcpObj \in {"connected", "destroyed", "ended"}
    /\ tcpObj' = "closed"
    /\ UNCHANGED tcpReplied
    /\ tcpSocket' = "null"
    /\ UNCHANGED <<connectionType, tcpOld, udpSocket, udpObj, pc, call, calls,
                   dispatch>>

\* 'close' of an earlier TCP socket object: its listener too sets this.socket = null
TcpOldClose ==
    /\ UNCHANGED <<tpVars, disc, fwd, codec>>
    /\ tcpOld > 0
    /\ tcpOld' = tcpOld - 1
    /\ tcpSocket' = "null"
    /\ UNCHANGED <<connectionType, tcpObj, tcpReplied, udpSocket, udpObj, pc, call, calls,
                   dispatch>>

\* zklibUdp.disconnect() in the catch block of the UDP attempt
UdpFailed(code) ==
    IF UdpErrorIsFatal(code)
    THEN /\ connectionType' = "null"
         /\ call' = [call EXCEPT !.udpErr = code, !.selected = "null"]
         /\ pc' = IF udpSocket = "null" THEN "udp exit stuck" ELSE "udp exit"
    ELSE /\ connectionType' = "udp"
         /\ call' = [call EXCEPT !.udpErr = code, !.selected = "udp",
                                 !.outcome = "resolved"]
         /\ pc' = "idle"

\* 'listening': zklibUdp.createSocket resolves, zklibUdp.connect() sends the handshake
UdpOpenOk ==
    /\ UNCHANGED <<tpVars, disc, fwd, codec>>
    /\ pc = "udp open"
    /\ udpObj = "binding"
    /\ udpObj' = "listening"
    /\ call' = [call EXCEPT !.udpHandshake = TRUE]
    /\ pc' = "udp handshake"
    /\ UNCHANGED <<connectionType, tcpSocket, tcpObj, tcpReplied, tcpOld, udpSocket, calls,
                   dispatch>>

\* 'error' on bind: zklibUdp.createSocket rejects
UdpOpenFail(code) ==
    /\ UNCHANGED <<tpVars, disc, fwd, codec>>
    /\ pc = "udp open"
    /\ udpObj = "binding"
    /\ udpObj' = "unbound"
    /\ UdpFailed(code)
    /\ UNCHANGED <<tcpSocket, tcpObj, tcpReplied, tcpOld, udpSocket, calls, dispatch>>

\* the UDP handshake's reply: this.connectionType = 'udp'
UdpHandshakeOk ==
    /\ UNCHANGED <<tpVars, disc, fwd, codec>>
    /\ pc = "udp handshake"
    /\ connectionType' = "udp"
    /\ call' = [call EXCEPT !.udpOk = TRUE, !.selected = "udp", !.outcome = "resolved"]
    /\ pc' = "idle"
    /\ UNCHANGED <<tcpSocket, tcpObj, tcpReplied, tcpOld, udpSocket, udpObj, calls, dispatch>>

\* the UDP handshake's timer or send error
UdpHandshakeFail(code) ==
    /\ UNCHANGED <<tpVars, disc, fwd, codec>>
    /\ pc = "udp handshake"
    /\ UdpFailed(code)
    /\ UNCHANGED <<tcpSocket, tcpObj, tcpReplied, tcpOld, udpSocket, udpObj, calls, dispatch>>

\* the exit exchange settles (its outcome is ignored); closeSocket() removes the
\* listeners and closes the dgram socket
UdpExitSettled ==
    /\ UNCHANGED <<tpVars, disc, fwd, codec>>
    /\ pc = "udp exit"
    /\ pc' = "udp close"
    /\ UNCHANGED <<connectionType, tcpSocket, tcpObj, tcpReplied, tcpOld, udpSocket, udpObj, call,
                   calls, dispatch>>

\* a slip: the catch block leaves the TCP transport's socket reference alone
UdpCloseSocketDoneKeepsTcp ==
    /\ UNCHANGED <<tpVars, disc, fwd, codec>>
    /\ pc = "udp close"
    /\ udpObj' = "closed"
    /\ udpSocket' = "null"
    /\ call' = [call EXCEPT !.outcome = "UDP CONNECT"]
    /\ pc' = "idle"
    /\ UNCHANGED <<connectionType, tcpSocket, tcpObj, tcpReplied, tcpOld, calls, dispatch>>

\* the dgram socket's 'close' is emitted on the tick after close() (this.socket =
\* null) and then its callback resolves closeSocket(): both socket references are
\* cleared and the call rejects
UdpCloseSocketDone ==
    /\ UNCHANGED <<tpVars, disc, fwd, codec>>
    /\ pc = "udp close"
    /\ udpObj' = "closed"
    /\ udpSocket' = "null"
    /\ tcpSocket' = "null"
    /\ call' = [call EXCEPT !.outcome = "UDP CONNECT"]
    /\ pc' = "idle"
    /\ tcpOld' = IF tcpSocket = "set" /\ tcpObj \in {"connecting", "connected", "destroyed", "ended"}
                 THEN tcpOld + 1 ELSE tcpOld
    /\ tcpObj' = IF tcpSocket = "set" THEN "none" ELSE tcpObj
    /\ tcpReplied' = IF tcpSocket = "set" THEN FALSE ELSE tcpReplied
    /\ UNCHANGED <<connectionType, calls, dispatch>>

\* getUsers(): functionWrapper forwards to the active transport
GetUsers ==
    /\ UNCHANGED <<tpVars, disc, fwd, codec>>
    /\ pc = "idle"
    /\ disc \notin DisconnectBusy
    /\ dispatch = "none"
    /\ dispatch' = FunctionWrapper(connectionType, tcpSocket, udpSocket)
    /\ UNCHANGED <<connectionType, tcpSocket, tcpObj, tcpReplied, tcpOld, udpSocket, udpObj,
                   pc, call, calls>>

\* disconnect(): functionWrapper rejects when no transport is selected or the
\* selected transport has no socket, and otherwise awaits that transport's
\* disconnect(), which starts with the exit exchange
ZKLibDisconnect ==
    /\ UNCHANGED <<tpVars, fwd, codec>>
    /\ pc = "idle"
    /\ disc = "none"
    /\ disc' = CASE FunctionWrapper(connectionType, tcpSocket, udpSocket) = "tcp" -> "tcp exit"
                  [] FunctionWrapper(connectionType, tcpSocket, udpSocket) = "udp" -> "udp exit"
                  [] OTHER -> "rejected"
    /\ UNCHANGED <<connectionType, tcpSocket, tcpObj, tcpReplied, tcpOld, udpSocket, udpObj,
                   pc, call, calls, dispatch>>

\* the exit exchange settles (reply, write error or timer; the outcome is ignored)
\* and closeSocket() ends or closes the socket when this.socket is set
ZKLibDisconnectExitSettled ==
    /\ UNCHANGED <<tpVars, fwd, codec>>
    /\ disc \in {"tcp exit", "udp exit"}
    /\ disc' = IF disc = "tcp exit" THEN "tcp close" ELSE "udp close"
    /\ tcpObj' = IF disc = "tcp exit" /\ tcpSocket = "set" /\ tcpObj = "connected"
                 THEN "ended" ELSE tcpObj
    /\ UNCHANGED tcpReplied
    /\ UNCHANGED <<connectionType, tcpSocket, tcpOld, udpSocket, udpObj,
                   pc, call, calls, dispatch>>

\* closeSocket() resolves (by its callback or its timer) and disconnect() returns;
\* the dgram socket's 'close' (this.socket = null) comes before its callback
ZKLibDisconnectClosed ==
    /\ UNCHANGED <<tpVars, fwd, codec>>
    /\ disc \in {"tcp close", "udp close"}
    /\ disc' = "resolved"
    /\ udpObj' = IF disc = "udp close" /\ udpSocket = "set" THEN "closed" ELSE udpObj
    /\ udpSocket' = IF disc = "udp close" THEN "null" ELSE udpSocket
    /\ UNCHANGED <<connectionType, tcpSocket, tcpObj, tcpReplied, tcpOld, pc, call, calls, dispatch>>

NextOrch ==
    \/ CreateSocket
    \/ TcpOpenOk
    \/ \E code \in TcpOpenErrors : TcpOpenFail(code)
    \/ TcpHandshakeOk
    \/ \E code \in HandshakeErrors : TcpHandshakeFail(code)
    \/ TcpExitSettled
    \/ TcpCloseSocketDone
    \/ TcpClose
    \/ TcpOldClose
    \/ UdpOpenOk
    \/ \E code \in UdpOpenErrors : UdpOpenFail(code)
    \/ UdpHandshakeOk
    \/ \E code \in UdpHandshakeErrors : UdpHandshakeFail(code)
    \/ UdpExitSettled
    \/ UdpCloseSocketDone
    \/ GetUsers

SpecOrch == InitOrch /\ [][NextOrch]_vars

\* the orchestrator with the public disconnect among its calls
NextDisconnect ==
    \/ NextOrch
    \/ ZKLibDisconnect
    \/ ZKLibDisconnectExitSettled
    \/ ZKLibDisconnectClosed

SpecDisconnect == InitOrch /\ [][NextDisconnect]_vars

\* the operations forwarded through functionWrapper
Operations == {"getInfo", "getUsers", "getAttendances", "clearAttendanceLog",
               "enableDevice", "disableDevice", "getTime", "getRealTimeLogs",
               "executeCmd"}

\* what a transport's method rejects with: a timeout (no code) or a socket error
TransportErrors == {NOCODE, ECONNRESET}

\* the third argument of functionWrapper as the operation's method passes it: every
\* method passes two callbacks only, and `[TCP] ${command}` spells the missing one
CommandArg(op) == "undefined"

\* the first field of ZKError.command
Tag(ct) == CASE ct = "tcp" -> "[TCP]" [] ct = "udp" -> "[UDP]" [] OTHER -> ""

\* an operation's method calls functionWrapper: the selected transport's callback
\* is invoked when that transport's socket is set, and otherwise the call rejects
\* with a ZKError made there
Forward(op) ==
    /\ fwd.st # "pending"
    /\ LET to == FunctionWrapper(connectionType, tcpSocket, udpSocket)
       IN  fwd' = IF to = "not connected"
                  THEN [op |-> op, to |-> "none", st |-> "rejected",
                        err |-> "Socket isn't connected!", tag |-> Tag(connectionType),
                        command |-> "none", ip |-> Ip]
                  ELSE [NoForward EXCEPT !.op = op, !.to = to, !.st = "pending"]
    /\ UNCHANGED <<connectionType, tcpSocket, tcpObj, tcpReplied, tcpOld, udpSocket, udpObj,
                   pc, call, calls, dispatch, disc>>
    /\ UNCHANGED <<tpVars, codec>>

\* return await tcpCallback() / udpCallback()
ForwardResolves ==
    /\ fwd.st = "pending"
    /\ fwd' = [fwd EXCEPT !.st = "resolved"]
    /\ UNCHANGED <<connectionType, tcpSocket, tcpObj, tcpReplied, tcpOld, udpSocket, udpObj,
                   pc, call, calls, dispatch, disc>>
    /\ UNCHANGED <<tpVars, codec>>

\* catch (err): new ZKError(err, `[TCP] ${command}`, this.ip)
ForwardFails(err) ==
    /\ fwd.st = "pending"
    /\ fwd' = [fwd EXCEPT !.st = "rejected", !.err = err, !.tag = Tag(fwd.to),
                          !.command = CommandArg(fwd.op), !.ip = Ip]
    /\ UNCHANGED <<connectionType, tcpSocket, tcpObj, tcpReplied, tcpOld, udpSocket, udpObj,
                   pc, call, calls, dispatch, disc>>
    /\ UNCHANGED <<tpVars, codec>>

\* the orchestrator with the forwarded operations called at any time
NextForward ==
    \/ NextOrch
    \/ \E op \in Operations : Forward(op)
    \/ ForwardResolves
    \/ \E err \in TransportErrors : ForwardFails(err)

SpecForward == InitOrch /\ [][NextForward]_vars

(***************************************************************************)
(* Claims about the orchestrator (checked under SpecOrch).                 *)
(***************************************************************************)
TcpPhase == {"tcp open", "tcp handshake", "tcp handshake stuck", "tcp exit",
             "tcp exit stuck", "tcp close"}

\* C1 (as stated): once the TCP attempt of a createSocket call has failed with
\* ECONNREFUSED and the TCP teardown is over, that call has opened the UDP
\* socket; if the handshake succeeded the call resolved with UDP selected and a
\* following getUsers went to the UDP transport.
C1_AsStated ==
    (call.tcpErr = ECONNREFUSED /\ pc \notin TcpPhase) =>
        /\ call.udpCreated
        /\ (call.udpOk => /\ call.outcome = "resolved"
                          /\ connectionType = "udp"
                          /\ dispatch \in {"none", "udp"})

\* C1 (amended): once the TCP attempt of a createSocket call has failed with
\* ECONNREFUSED and the TCP teardown is over, that call has either opened the UDP
\* socket or, zklibUdp.socket being already set, reused it without a handshake;
\* if the handshake succeeded or the socket was reused, the call resolved with UDP
\* selected and a following getUsers went to the UDP transport, never to TCP.
C1_FallbackToUdp ==
    (call.tcpErr = ECONNREFUSED /\ pc \notin TcpPhase) =>
        /\ call.udpCreated # call.udpReused
        /\ (call.udpHandshake => call.udpCreated)
        /\ (call.udpOk \/ call.udpReused =>
                /\ call.outcome = "resolved"
                /\ connectionType = "udp"
                /\ dispatch \in {"none", "udp"})

C1_Witness ==
    /\ call.tcpErr = ECONNREFUSED
    /\ call.udpOk
    /\ dispatch = "udp"

\* C38: when the createSocket call made last has selected TCP and the TCP
\* transport holds a socket, that socket has carried the reply of a handshake
C38_TcpSelectedAfterHandshake ==
    (call.selected = "tcp" /\ tcpSocket = "set") => tcpReplied

\* the TCP attempt of the createSocket call made last was refused and its UDP
\* attempt failed with an error other than EADDRINUSE
UdpConnectFailed ==
    /\ call.tcpErr = ECONNREFUSED
    /\ call.udpErr \notin {"none", EADDRINUSE}

\* C39: a createSocket call whose TCP attempt was refused and whose UDP attempt
\* failed with an error other than EADDRINUSE settles only by rejecting with the
\* tag 'UDP CONNECT', and no other call rejects with that tag; from the failure
\* on no transport is selected, and once the call has rejected both socket
\* references are null; an operation called then rejects with "Socket isn't
\* connected!" and is forwarded to no transport
C39_UdpConnectFailure ==
    /\ [](/\ UdpConnectFailed =>
                /\ call.outcome \in {"pending", "UDP CONNECT"}
                /\ connectionType = "null"
                /\ FunctionWrapper(connectionType, tcpSocket, udpSocket) = "not connected"
          /\ call.outcome = "UDP CONNECT" =>
                /\ UdpConnectFailed
                /\ pc = "idle"
                /\ tcpSocket = "null" /\ udpSocket = "null")
    /\ [][/\ (UdpConnectFailed /\ fwd.st # "pending" /\ fwd' # fwd) =>
                /\ fwd'.st = "rejected" /\ fwd'.to = "none"
                /\ fwd'.err = "Socket isn't connected!" /\ fwd'.tag = ""
          /\ (UdpConnectFailed /\ calls' = calls /\ dispatch' # dispatch) =>
                dispatch' = "not connected"]_vars

C39_Witness ==
    /\ UdpConnectFailed
    /\ call.outcome = "UDP CONNECT"
    /\ call.udpHandshake
    /\ dispatch = "not connected"
    /\ fwd.st = "rejected" /\ fwd.to = "none"

C21_FailureWrapped ==
    (fwd.st = "rejected" /\ fwd.to # "none") =>
        /\ fwd.err \in TransportErrors
        /\ fwd.tag = Tag(fwd.to)
        /\ fwd.command = fwd.op
        /\ fwd.ip = Ip

\* C22: a call of a forwarded operation invokes the callback of the selected
\* transport and no other, and only when that transport's socket reference is
\* set; with no transport selected or the selected one's socket null it invokes
\* neither and rejects with a ZKError 'Socket isn't connected!'
C22_OnlySelectedTransport ==
    [][(fwd.st # "pending" /\ fwd' # fwd) =>
        IF \/ connectionType = "tcp" /\ tcpSocket # "null"
           \/ connectionType = "udp" /\ udpSocket # "null"
        THEN fwd'.to = connectionType /\ fwd'.st = "pending"
        ELSE /\ fwd'.to = "none"
             /\ fwd'.st = "rejected"
             /\ fwd'.err = "Socket isn't connected!"
             /\ fwd'.ip = Ip]_vars

\* the selected transport's socket has closed and the call is rejected
C22_Witness ==
    /\ connectionType = "tcp"
    /\ tcpSocket = "null"
    /\ fwd.st = "rejected"
    /\ fwd.to = "none"
    /\ fwd.err = "Socket isn't connected!"

\* C25: a createSocket call whose TCP attempt was refused and whose UDP socket
\* open or UDP handshake failed with EADDRINUSE has not rejected: it resolved
\* with the UDP transport selected
C25_AddressInUseSelectsUdp ==
    (call.tcpErr = ECONNREFUSED /\ call.udpErr = EADDRINUSE) =>
        /\ call.outcome = "resolved"
        /\ call.selected = "udp"
        /\ connectionType = "udp"
        /\ pc = "idle"

\* the bind failed with EADDRINUSE, no handshake was sent, UDP is selected
C25_Witness ==
    /\ call.tcpErr = ECONNREFUSED
    /\ call.udpErr = EADDRINUSE
    /\ call.udpCreated /\ ~call.udpHandshake
    /\ call.outcome = "resolved"
    /\ connectionType = "udp"

\* C20: the public disconnect never surfaces an error: whether or not a transport
\* is selected and whether or not its socket is still open, the call does not
\* reject
C20_DisconnectNeverRejects == disc # "rejected"

(***************************************************************************)
(* The frame codec (utils.ts).  A buffer is a sequence of bytes.           *)
(***************************************************************************)
\* buf.writeUInt16LE(value, offset) takes 0..65535 and throws a RangeError otherwise
WritableU16(v) == v \in 0..65535

\* the two bytes writeUInt16LE stores
LE16(v) == <<v % 256, (v \div 256) % 256>>

\* the four bytes writeUInt32LE stores
LE32(v) == <<v % 256, (v \div 256) % 256, (v \div 65536) % 256, (v \div 16777216) % 256>>

\* buf.readUInt16LE(off) / buf.readUIntLE(off, 2)
readUInt16LE(buf, off) == buf[off + 1] + 256 * buf[off + 2]

\* the for loop of createChkSum, from index i with the sum so far
RECURSIVE chkSumLoop(_, _, _)
chkSumLoop(buf, i, chksum) ==
    IF i >= Len(buf) THEN chksum
    ELSE chkSumLoop(buf, i + 2,
                    (chksum + (IF i = Len(buf) - 1 THEN buf[i + 1]
                               ELSE readUInt16LE(buf, i))) % USHRT_MAX)

createChkSum(buf) == USHRT_MAX - chkSumLoop(buf, 0, 0) - 1

\* a slip: the checksum is computed over the frame as it is returned
createUDPHeaderSumLast(command, session, reply, data) ==
    LET buf == LE16(command) \o LE16(0) \o LE16(session)
                    \o LE16((reply + 1) % USHRT_MAX) \o data
    IN  LE16(command) \o LE16(createChkSum(buf)) \o LE16(session)
            \o LE16((reply + 1) % USHRT_MAX) \o data

\* the frame the header builder returns; the sequence field is rewritten after the
\* checksum was computed
createUDPHeader(command, session, reply, data) ==
    LET buf == LE16(command) \o LE16(0) \o LE16(session) \o LE16(reply) \o data
    IN  LE16(command) \o LE16(createChkSum(buf)) \o LE16(session)
            \o LE16((reply + 1) % USHRT_MAX) \o data

\* a slip: the length field of the prefix keeps the bytes of the literal
createTCPHeaderLiteralPrefix(command, session, reply, data) ==
    LET buf == LE16(command) \o LE16(0) \o LE16(session) \o LE16(reply) \o data
    IN  <<80, 80, 130, 125, 19, 0, 0, 0>>
            \o LE16(command) \o LE16(createChkSum(buf)) \o LE16(session)
            \o LE16((reply + 1) % USHRT_MAX) \o data

\* createTCPHeader builds the frame with its own copy of createUDPHeader's
\* statements, then puts the 8-byte prefix before it: the literal 50 50 82 7D 13
\* 00 00 00 with the frame's length written over bytes 4 and 5
createTCPHeader(command, session, reply, data) ==
    LET buf0 == LE16(command) \o LE16(0) \o LE16(session) \o LE16(reply) \o data
        buf == LE16(command) \o LE16(createChkSum(buf0)) \o LE16(session)
                    \o LE16((reply + 1) % USHRT_MAX) \o data
        prefixBuf == <<80, 80, 130, 125>> \o LE16(Len(buf)) \o <<0, 0>>
    IN  prefixBuf \o buf

\* the header builders throw when a field does not fit writeUInt16LE
HeaderThrows(session, reply) == ~WritableU16(session) \/ ~WritableU16(reply)

\* a slip: the prefix is looked for whatever the length
removeTcpHeaderAnyLength(buf) ==
    IF Len(buf) >= 4 /\ SubSeq(buf, 1, 4) = <<80, 80, 130, 125>>
    THEN SubSeq(buf, 9, Len(buf))
    ELSE buf

removeTcpHeader(buf) ==
    IF Len(buf) < 8 THEN buf
    ELSE IF SubSeq(buf, 1, 4) # <<80, 80, 130, 125>> THEN buf
    ELSE SubSeq(buf, 9, Len(buf))

decodeUDPHeader(header) ==
    [commandId |-> readUInt16LE(header, 0), checkSum |-> readUInt16LE(header, 2),
     sessionId |-> readUInt16LE(header, 4), replyId |-> readUInt16LE(header, 6)]

decodeTCPHeader(header) ==
    decodeUDPHeader(SubSeq(header, 9, Len(header)))
        @@ [payloadSize |-> readUInt16LE(header, 4)]

(***************************************************************************)
(* The codec functions called on their own: a call is drawn initially and  *)
(* the function is applied to it.                                          *)
(***************************************************************************)
\* byte values the buffers are made of
ByteVals == {0, 1, 255}

\* buffers of at most n bytes
Buffers(n) == UNION {[1..k -> ByteVals] : k \in 0..n}

\* the prefix a TCP frame begins with
Magic == <<80, 80, 130, 125>>

\* arguments of createUDPHeader: the handshake and a bulk request, with and
\* without a session, early and late in the sequence
CodecCommands == {CMD_CONNECT, CMD_DATA_WRRQ}
CodecSessions == {0, DevSession}
CodecReplies == {0, 1, 65534, 65535}

\* arguments of removeTcpHeader: with the prefix, with all but its last byte, and
\* without
StripInputs ==
    Buffers(MaxLen)
    \cup {Magic \o b : b \in Buffers(MaxLen)}
    \cup {Magic \o <<1, 0, 0, 0>> \o b : b \in Buffers(MaxData)}
    \cup {<<80, 80, 130, 0>> \o b : b \in Buffers(MaxLen)}

CodecCall(fn, command, session, reply, buf) ==
    [fn |-> fn, command |-> command, session |-> session, reply |-> reply, buf |-> buf,
     done |-> FALSE, out |-> <<>>, sum |-> 0]

CodecCalls ==
    {CodecCall("createChkSum", 0, 0, 0, b) : b \in Buffers(MaxLen)}
    \cup {CodecCall("createUDPHeader", c, sid, r, b) :
                c \in CodecCommands, sid \in CodecSessions, r \in CodecReplies,
                b \in Buffers(MaxData)}
    \cup {CodecCall("createTCPHeader", c, sid, r, b) :
                c \in CodecCommands, sid \in CodecSessions, r \in CodecReplies,
                b \in Buffers(MaxData)}
    \cup {CodecCall("removeTcpHeader", 0, 0, 0, b) : b \in StripInputs}

InitCodec ==
    /\ InitOrchVars
    /\ tp = "tcp"
    /\ timeout = DefaultTimeout
    /\ IdleTransport
    /\ codec \in CodecCalls

CallCreateChkSum ==
    /\ codec.fn = "createChkSum" /\ ~codec.done
    /\ codec' = [codec EXCEPT !.done = TRUE, !.sum = createChkSum(codec.buf)]
    /\ UNCHANGED <<orchVars, tpVars>>

CallCreateUDPHeader ==
    /\ codec.fn = "createUDPHeader" /\ ~codec.done
    /\ codec' = [codec EXCEPT
                    !.done = TRUE,
                    !.out = createUDPHeader(codec.command, codec.session, codec.reply,
                                            codec.buf)]
    /\ UNCHANGED <<orchVars, tpVars>>

CallCreateTCPHeader ==
    /\ codec.fn = "createTCPHeader" /\ ~codec.done
    /\ codec' = [codec EXCEPT
                    !.done = TRUE,
                    !.out = createTCPHeader(codec.command, codec.session, codec.reply,
                                            codec.buf)]
    /\ UNCHANGED <<orchVars, tpVars>>

CallRemoveTcpHeader ==
    /\ codec.fn = "removeTcpHeader" /\ ~codec.done
    /\ codec' = [codec EXCEPT !.done = TRUE, !.out = removeTcpHeader(codec.buf)]
    /\ UNCHANGED <<orchVars, tpVars>>

NextCodec ==
    \/ CallCreateChkSum
    \/ CallCreateUDPHeader
    \/ CallCreateTCPHeader
    \/ CallRemoveTcpHeader

SpecCodec == InitCodec /\ [][NextCodec]_vars

Built == codec.fn = "createUDPHeader" /\ codec.done

\* the frame with its checksum field zeroed and its sequence field set to seq
Rewritten(frame, seq) ==
    SubSeq(frame, 1, 2) \o LE16(0) \o SubSeq(frame, 5, 6) \o LE16(seq)
        \o SubSeq(frame, 9, Len(frame))

\* C14 (as stated): the checksum recomputed over the returned frame with its
\* checksum field zeroed is the checksum stored in the frame
C14_AsStated ==
    Built => createChkSum(Rewritten(codec.out, readUInt16LE(codec.out, 6)))
                = readUInt16LE(codec.out, 2)

\* C14 (amended): the checksum stored in the returned frame is the one computed
\* over that frame with the checksum field zeroed and the sequence field holding
\* the sequence id that was passed in, not the advanced one the frame carries
C14_ChecksumOfBuiltFrame ==
    Built => createChkSum(Rewritten(codec.out, codec.reply)) = readUInt16LE(codec.out, 2)

\* a frame with a payload of odd length, late in the sequence
C14_Witness ==
    /\ Built
    /\ Len(codec.buf) = 3
    /\ codec.reply = 65534
    /\ Len(codec.out) = 11

\* C15: createChkSum is the reference checksum: the little-endian 16-bit words
\* (a trailing single byte as its value) added up with every partial sum reduced
\* modulo 65536, then 65535 - sum - 1 modulo 65536; the result is in 0..65535
C15_ChkSumReference ==
    (codec.fn = "createChkSum" /\ codec.done) =>
        LET b == codec.buf
            nw == (Len(b) + 1) \div 2
            word(k) == IF 2 * k > Len(b) THEN b[2 * k - 1] ELSE b[2 * k - 1] + 256 * b[2 * k]
            part[k \in 0..nw] == IF k = 0 THEN 0 ELSE (part[k - 1] + word(k)) % 65536
        IN  /\ codec.sum = (65535 - part[nw] - 1) % 65536
            /\ codec.sum \in 0..65535

\* C16: the returned frame is 8 + len(payload) bytes: the operation at 0, the
\* checksum at 2, the session id at 4, the sequence id plus 1 modulo 65536 at 6,
\* the payload from 8 on; the handshake with session 0, sequence 0 and no payload
\* is E8 03 16 FC 00 00 01 00
C16_FrameLayout ==
    Built =>
        /\ Len(codec.out) = 8 + Len(codec.buf)
        /\ readUInt16LE(codec.out, 0) = codec.command
        /\ readUInt16LE(codec.out, 4) = codec.session
        /\ readUInt16LE(codec.out, 6) = (codec.reply + 1) % 65536
        /\ SubSeq(codec.out, 9, Len(codec.out)) = codec.buf
        /\ (codec.command = CMD_CONNECT /\ codec.session = 0 /\ codec.reply = 0
                /\ codec.buf = <<>>)
            => codec.out = <<232, 3, 22, 252, 0, 0, 1, 0>>

Stripped == codec.fn = "removeTcpHeader" /\ codec.done

\* C17 (as stated): a buffer that begins with the 4 prefix bytes, whatever its
\* length, is returned without its first 8 bytes; any other buffer is returned
\* unchanged
C17_AsStated ==
    Stripped =>
        codec.out = IF Len(codec.buf) >= 4 /\ SubSeq(codec.buf, 1, 4) = <<80, 80, 130, 125>>
                    THEN SubSeq(codec.buf, 9, Len(codec.buf))
                    ELSE codec.buf

\* C17 (amended): a buffer of at least 8 bytes that begins with the 4 prefix bytes
\* is returned without its first 8 bytes; any other buffer, a shorter one that
\* begins with the prefix included, is returned unchanged
C17_EnvelopeStripped ==
    Stripped =>
        codec.out = IF /\ Len(codec.buf) >= 8
                       /\ SubSeq(codec.buf, 1, 4) = <<80, 80, 130, 125>>
                    THEN SubSeq(codec.buf, 9, Len(codec.buf))
                    ELSE codec.buf

\* a buffer of 6 bytes that begins with the prefix comes back whole
C17_Witness ==
    /\ Stripped
    /\ Len(codec.buf) = 6
    /\ SubSeq(codec.buf, 1, 4) = <<80, 80, 130, 125>>
    /\ codec.out = codec.buf

\* C33: the buffer createTCPHeader returns is the 8-byte envelope 50 50 82 7D
\* lenLo lenHi 00 00, len being 8 + the payload's length, followed by exactly the
\* frame createUDPHeader returns for the same arguments; removeTcpHeader applied
\* to it gives that frame back
C33_EnvelopeAroundFrame ==
    (codec.fn = "createTCPHeader" /\ codec.done) =>
        LET frame == createUDPHeader(codec.command, codec.session, codec.reply, codec.buf)
            len == 8 + Len(codec.buf)
        IN  /\ codec.out = <<80, 80, 130, 125, len % 256, len \div 256, 0, 0>> \o frame
            /\ removeTcpHeader(codec.out) = frame

\* a bulk request under a session, late in the sequence, with a 3-byte payload
C33_Witness ==
    /\ codec.fn = "createTCPHeader" /\ codec.done
    /\ codec.command = CMD_DATA_WRRQ /\ codec.session = DevSession /\ codec.reply = 65534
    /\ Len(codec.buf) = 3
    /\ Len(codec.out) = 19
    /\ SubSeq(codec.out, 1, 8) = <<80, 80, 130, 125, 11, 0, 0, 0>>


(***************************************************************************)
(* The record loops of getUsers / getAttendances, applied to a bulk result *)
(* of a drawn length.                                                      *)
(***************************************************************************)
\* the mode field of readWithBuffer's result: ZKLibUDP resolves with mode: 8 at
\* both places, ZKLibTCP's result has no such field (0: undefined)
ReadMode(t) == IF t = "udp" THEN 8 ELSE 0

\* USER_PACKET_SIZE / RECORD_PACKET_SIZE
RecordWidth(t, fn, mode) ==
    IF fn = "getUsers" THEN (IF t = "tcp" THEN 72 ELSE 28)
    ELSE IF t = "tcp" THEN 40
    ELSE IF mode # 0 THEN 8 ELSE 16

\* the while loop: the slices handed to the record decoder, as offsets into the
\* bulk result
RECURSIVE decodeLoop(_, _, _)
decodeLoop(off, len, W) ==
    IF len - off >= W
    THEN <<[from |-> off, n |-> W]>> \o decodeLoop(off + W, len, W)
    ELSE <<>>

\* data.data.subarray(4) and the loop over it
DecodeRecords(t, fn, len) ==
    LET W == RecordWidth(t, fn, ReadMode(t))
        off == IF len < 4 THEN len ELSE 4
        slices == decodeLoop(off, len, W)
    IN  [slices |-> slices, rest |-> len - off - W * Len(slices)]

\* new Date(year, month, day, hour, minute, second) with month in 0..11 and day
\* in 1..31, as its local-time fields read back (in a zone without clock
\* changes): a day the month does not have is carried into the next month
Date(year, month, day, hour, minute, second) ==
    LET leap == year % 4 = 0 /\ (year % 100 # 0 \/ year % 400 = 0)
        days == CASE month = 1 -> IF leap THEN 29 ELSE 28
                  [] month \in {3, 5, 8, 10} -> 30
                  [] OTHER -> 31
    IN  [year |-> year,
         month |-> IF day > days THEN month + 1 ELSE month,
         day |-> IF day > days THEN day - days ELSE day,
         hour |-> hour, minute |-> minute, second |-> second]

\* utils.ts' copy of the packed-31 decoder
parseTimeToDate(time) ==
    LET second == time % 60
        time1 == (time - second) \div 60
        minute == time1 % 60
        time2 == (time1 - minute) \div 60
        hour == time2 % 24
        time3 == (time2 - hour) \div 24
        day == (time3 % 31) + 1
        time4 == (time3 - (day - 1)) \div 31
        month == time4 % 12
        time5 == (time4 - month) \div 12
        year == time5 + 2000
    IN  Date(year, month, day, hour, minute, second)

\* timeParser.ts' copy
decode(time) ==
    LET second == time % 60
        time1 == (time - second) \div 60
        minute == time1 % 60
        time2 == (time1 - minute) \div 60
        hour == time2 % 24
        time3 == (time2 - hour) \div 24
        day == (time3 % 31) + 1
        time4 == (time3 - (day - 1)) \div 31
        month == time4 % 12
        time5 == (time4 - month) \div 12
        year == time5 + 2000
    IN  Date(year, month, day, hour, minute, second)

\* packed values (below 2^31): the first and last value of each field, the days
\* of the month's end, months of 28 / 29, 30 and 31 days, a leap and a common year
TimeValues ==
    {((((y * 12 + m) * 31 + d) * 24 + h) * 60 + mi) * 60 + sec :
        y \in {0, 1, 65}, m \in {0, 1, 3, 11}, d \in {0, 27, 28, 29, 30},
        h \in {0, 23}, mi \in {0, 59}, sec \in {0, 59}}

\* buf.readUIntLE(off, n)
RECURSIVE readUIntLE(_, _, _)
readUIntLE(buf, off, n) ==
    IF n = 0 THEN 0 ELSE buf[off + 1] + 256 * readUIntLE(buf, off + 1, n - 1)

\* buf.toString('ascii').split('\0')[0], as character codes: decoding unsets the
\* highest bit of each byte, and the string is cut at its first NUL character
Text(buf) ==
    LET chars == [i \in 1..Len(buf) |-> buf[i] % 128]
        nul == {i \in 1..Len(chars) : chars[i] = 0}
    IN  IF nul = {} THEN chars
        ELSE SubSeq(chars, 1, (CHOOSE i \in nul : \A j \in nul : i <= j) - 1)

decodeUserData28(userData) ==
    [uid |-> readUIntLE(userData, 0, 2),
     role |-> readUIntLE(userData, 2, 1),
     name |-> Text(SubSeq(userData, 9, 16)),
     userId |-> readUIntLE(userData, 24, 4)]

decodeUserData72(userData) ==
    [uid |-> readUIntLE(userData, 0, 2),
     role |-> readUIntLE(userData, 2, 1),
     password |-> Text(SubSeq(userData, 4, 11)),
     name |-> Text(SubSeq(userData, 12, Len(userData))),
     cardno |-> readUIntLE(userData, 35, 4),
     userId |-> Text(SubSeq(userData, 49, 57))]

\* what a text field begins with: up to 3 bytes out of NUL, 'J' and 0x80
TextStarts == UNION {[1..k -> {0, 74, 128}] : k \in 0..3}

\* user records: a text field's start written at its offset (and a second one at
\* another offset) into a record of NUL bytes or of 'A's; and the 28-byte record
\* whose name is JOHN
UserRecords(width, off, other) ==
    {[i \in 1..width |->
        IF i - off \in 1..Len(p) THEN p[i - off]
        ELSE IF i - other \in 1..Len(q) THEN q[i - other]
        ELSE fill] :
            p \in TextStarts, q \in {<<>>, <<74, 0, 74>>}, fill \in {0, 65}}
    \cup (IF width # 28 THEN {}
          ELSE {[i \in 1..28 |-> IF i \in 9..12 THEN <<74, 79, 72, 78>>[i - 8] ELSE 0]})

DecodeCall(t, fn, len) ==
    [fn |-> fn, t |-> t, len |-> len, done |-> FALSE, slices |-> <<>>, rest |-> 0]

InitDecode ==
    /\ InitOrchVars
    /\ tp \in {"tcp", "udp"}
    /\ timeout = DefaultTimeout
    /\ IdleTransport
    /\ codec \in {DecodeCall(tp, fn, len) :
                    fn \in {"getUsers", "getAttendances"}, len \in 0..MaxBulk}
                \cup {[fn |-> fn, time |-> t, done |-> FALSE, date |-> Date(0, 0, 1, 0, 0, 0)] :
                        fn \in {"parseTimeToDate", "decode"}, t \in TimeValues}
                \cup {[fn |-> "decodeUserData28", buf |-> b, done |-> FALSE, user |-> <<>>] :
                        b \in UserRecords(28, 8, 0)}
                \cup {[fn |-> "decodeUserData72", buf |-> b, done |-> FALSE, user |-> <<>>] :
                        b \in UserRecords(72, 11, 3)}

CallGetUsers ==
    /\ codec.fn = "getUsers" /\ ~codec.done
    /\ codec' = [codec EXCEPT
                    !.done = TRUE,
                    !.slices = DecodeRecords(tp, "getUsers", codec.len).slices,
                    !.rest = DecodeRecords(tp, "getUsers", codec.len).rest]
    /\ UNCHANGED <<orchVars, tpVars>>

CallGetAttendances ==
    /\ codec.fn = "getAttendances" /\ ~codec.done
    /\ codec' = [codec EXCEPT
                    !.done = TRUE,
                    !.slices = DecodeRecords(tp, "getAttendances", codec.len).slices,
                    !.rest = DecodeRecords(tp, "getAttendances", codec.len).rest]
    /\ UNCHANGED <<orchVars, tpVars>>

CallParseTimeToDate ==
    /\ codec.fn = "parseTimeToDate" /\ ~codec.done
    /\ codec' = [codec EXCEPT !.done = TRUE, !.date = parseTimeToDate(codec.time)]
    /\ UNCHANGED <<orchVars, tpVars>>

CallDecode ==
    /\ codec.fn = "decode" /\ ~codec.done
    /\ codec' = [codec EXCEPT !.done = TRUE, !.date = decode(codec.time)]
    /\ UNCHANGED <<orchVars, tpVars>>

CallDecodeUserData28 ==
    /\ codec.fn = "decodeUserData28" /\ ~codec.done
    /\ codec' = [codec EXCEPT !.done = TRUE, !.user = decodeUserData28(codec.buf)]
    /\ UNCHANGED <<orchVars, tpVars>>

CallDecodeUserData72 ==
    /\ codec.fn = "decodeUserData72" /\ ~codec.done
    /\ codec' = [codec EXCEPT !.done = TRUE, !.user = decodeUserData72(codec.buf)]
    /\ UNCHANGED <<orchVars, tpVars>>

NextDecode ==
    \/ CallGetUsers
    \/ CallGetAttendances
    \/ CallParseTimeToDate
    \/ CallDecode
    \/ CallDecodeUserData28
    \/ CallDecodeUserData72

SpecDecode == InitDecode /\ [][NextDecode]_vars

\* C23: from a bulk result of L bytes getUsers and getAttendances decode
\* floor((L - 4) / W) records, the i-th from the W bytes at offset 4 + (i - 1) W,
\* and leave the last (L - 4) mod W bytes undecoded, W being 72 (TCP) or 28 (UDP)
\* for users and 40 (TCP) or 16 (UDP) for attendance records
C23_RecordsDecoded ==
    (codec.fn \in {"getUsers", "getAttendances"} /\ codec.done /\ codec.len >= 4) =>
        LET W == CASE codec.fn = "getUsers" /\ tp = "tcp" -> 72
                   [] codec.fn = "getUsers" /\ tp = "udp" -> 28
                   [] codec.fn = "getAttendances" /\ tp = "tcp" -> 40
                   [] OTHER -> 16
        IN  /\ Len(codec.slices) = (codec.len - 4) \div W
            /\ \A i \in DOMAIN codec.slices :
                    codec.slices[i] = [from |-> 4 + (i - 1) * W, n |-> W]
            /\ codec.rest = (codec.len - 4) % W
\* C34: the timestamp either decoder returns for a packed value t has
\* second t mod 60, minute (t div 60) mod 60, hour (t div 3600) mod 24, day
\* 1 + (t div 86400) mod 31, month index (t div (86400 * 31)) mod 12 and year
\* 2000 + t div (86400 * 31 * 12), also when the month has no such day; 0 decodes
\* to 1 of month 0 of 2000, 00:00:00
C34_Packed31Decoded ==
    (codec.fn \in {"parseTimeToDate", "decode"} /\ codec.done) =>
        LET t == codec.time
        IN  /\ codec.date = [second |-> t % 60,
                             minute |-> (t \div 60) % 60,
                             hour |-> (t \div 3600) % 24,
                             day |-> 1 + ((t \div 86400) % 31),
                             month |-> (t \div (86400 * 31)) % 12,
                             year |-> 2000 + (t \div (86400 * 31 * 12))]
            /\ t = 0 => codec.date = [year |-> 2000, month |-> 0, day |-> 1,
                                      hour |-> 0, minute |-> 0, second |-> 0]

\* C35: every text field of a decoded user record is the content of its window
\* (the characters of its bytes) up to the first zero byte, the whole window if
\* it holds none; it contains no zero; the 28-byte record whose name window is
\* JOHN and four zero bytes has the name JOHN
C35_TextFields ==
    LET upToZero(w) ==
            LET zero == {i \in 1..Len(w) : w[i] = 0}
                n == IF zero = {} THEN Len(w)
                     ELSE (CHOOSE i \in zero : \A j \in zero : i <= j) - 1
            IN  [i \in 1..n |-> w[i] % 128]
        noZero(text) == \A i \in 1..Len(text) : text[i] # 0
        b == codec.buf
        u == codec.user
    IN  /\ (codec.fn = "decodeUserData28" /\ codec.done) =>
                /\ u.name = upToZero(SubSeq(b, 9, 16)) /\ noZero(u.name)
                /\ SubSeq(b, 9, 16) = <<74, 79, 72, 78, 0, 0, 0, 0>>
                        => u.name = <<74, 79, 72, 78>>
        /\ (codec.fn = "decodeUserData72" /\ codec.done) =>
                /\ u.password = upToZero(SubSeq(b, 4, 11)) /\ noZero(u.password)
                /\ u.name = upToZero(SubSeq(b, 12, 72)) /\ noZero(u.name)
                /\ u.userId = upToZero(SubSeq(b, 49, 57)) /\ noZero(u.userId)


(***************************************************************************)
(* One transport.  An inbound frame is kept by the fields the code reads: *)
(* its operation code, its session field, its length in bytes as the      *)
(* 'data' / 'message' event carries it, and the size it announces; and by *)
(* the request it answers (re, 0: not told), which no code reads.         *)
(***************************************************************************)
\* bytes before the payload: 8 of header, and on TCP 8 of stream prefix
HeaderLen(t) == IF t = "tcp" THEN 16 ELSE 8

Frame(t, cmd, sess, payload, size) ==
    [id |-> 0, cmd |-> cmd, sess |-> sess, len |-> HeaderLen(t) + payload, size |-> size,
     re |-> 0]

PayloadLen(t, f) == f.len - HeaderLen(t)

\* data.readUIntLE(4, 2) of a TCP frame: the length its stream prefix announces
PacketLength(f) == f.len - 8

\* sizes a device announces, and payload lengths of its data frames
Sizes == {2}
DataLens == {1, 2}

\* what a device may send
InboundFrames(t) ==
    {Frame(t, CMD_ACK_OK, DevSession, 0, 0), Frame(t, CMD_ACK_ERROR, DevSession, 0, 0)}
    \cup {Frame(t, CMD_ACK_OK, DevSession, 10, sz) : sz \in Sizes}
    \cup {Frame(t, CMD_PREPARE_DATA, DevSession, 8, sz) : sz \in Sizes}
    \cup {Frame(t, CMD_DATA, DevSession, n, 0) : n \in DataLens}
    \cup {Frame(t, CMD_REG_EVENT, EF_ATTLOG, n, 0) : n \in {0, 10}}
    \cup {Frame(t, CMD_REG_EVENT, DevSession, 10, 0)}

\* a slip: the frames are built without the stored session id
SessionFieldZero(sid) == 0

\* this.sessionId! / this.sessionId || 0 as writeUInt16LE stores it
SessionField(sid) == IF sid = NoSession THEN 0 ELSE sid

\* REQUEST_DATA.GET_USERS: an opaque descriptor (constants.ts is not among the sources)
RequestData == <<1, 9, 0, 5, 0, 0, 0, 0, 0, 0, 0>>

\* the payload of the event registration
EventMask == <<1, 0, 0, 0>>

\* the header fields of the frame the transport writes
SentHeader(t, command, sid, rid, data) ==
    LET h == IF t = "tcp"
             THEN decodeTCPHeader(createTCPHeader(command, SessionField(sid), rid, data))
             ELSE decodeUDPHeader(createUDPHeader(command, SessionField(sid), rid, data))
    IN  [cmd |-> h.commandId, sess |-> h.sessionId, seq |-> h.replyId]

\* despite their names both return true when the frame IS an event
checkNotEventTCP(f) == f.sess = EF_ATTLOG /\ f.cmd = CMD_REG_EVENT

checkNotEventUDP(f) == f.cmd = CMD_REG_EVENT

IsEvent(t, f) == IF t = "tcp" THEN checkNotEventTCP(f) ELSE checkNotEventUDP(f)

\* an exchange started by the caller itself, not by getUsers / getAttendances
NoOp == [fn |-> "none", step |-> 0, st |-> "none", err |-> "none"]

\* the record of one exchange: the promise the caller awaits and the variables of
\* the closures behind it
NewExchange(kind, command) ==
    [kind |-> kind, cmd |-> command, st |-> "pending", reply |-> NoFrame, err |-> "none",
     rd |-> "none", replyBuffer |-> <<>>, got |-> <<>>,
     chunked |-> FALSE, size |-> 0, totalPackets |-> 0, totalBuffer |-> <<>>,
     realTotal |-> 0, data |-> <<>>, requests |-> <<>>, progress |-> <<>>,
     devData |-> <<>>, dis |-> "none", op |-> NoOp, answered |-> FALSE]

\* the transport's state as one record, for the handlers that run in one turn
Now ==
    [sessionId |-> sessionId, replyId |-> replyId, listeners |-> listeners,
     timers |-> timers, writes |-> writes, ex |-> ex, busy |-> busy,
     lastSent |-> lastSent, delivered |-> delivered]

Becomes(m) ==
    /\ sessionId' = m.sessionId
    /\ replyId' = m.replyId
    /\ listeners' = m.listeners
    /\ timers' = m.timers
    /\ writes' = m.writes
    /\ ex' = m.ex
    /\ busy' = m.busy
    /\ lastSent' = m.lastSent
    /\ delivered' = m.delivered

\* the closure a timer belongs to
ClosureOf(k) ==
    CASE k = "wm" -> "wm"
      [] k \in {"init", "recv", "data"} -> "rd"
      [] k = "close" -> "close"
      [] OTHER -> "rwb"

\* the delay a timer is set with: writeMessage takes 2000 for the handshake and
\* the exit and this.timeout otherwise, requestData this.timeout (1000 once data
\* frames arrive), readWithBuffer 10000 (TCP) or 3000 (UDP), closeSocket 2000
Delay(m, x, k) ==
    CASE k = "wm" -> IF m.ex[x].cmd \in {CMD_CONNECT, CMD_EXIT} THEN 2000 ELSE timeout
      [] k \in {"init", "recv"} -> timeout
      [] k = "data" -> 1000
      [] k = "close" -> 2000
      [] OTHER -> IF tp = "tcp" THEN 10000 ELSE 3000

\* if (timer) clearTimeout(timer): the timer the closure's variable holds
clearTimeout(m, x, c) ==
    [m EXCEPT !.timers = {t \in @ : ~(t.x = x /\ ClosureOf(t.k) = c /\ t.live)}]

\* timer = setTimeout(...): a timer the variable held and nobody cleared stays
\* pending, out of reach
setTimeout(m, x, k) ==
    [m EXCEPT !.timers =
        {IF t.x = x /\ ClosureOf(t.k) = ClosureOf(k) THEN [t EXCEPT !.live = FALSE] ELSE t
            : t \in @}
        \cup {[k |-> k, x |-> x, live |-> TRUE, ms |-> Delay(m, x, k)]}]

removeListener(m, k, x) ==
    [m EXCEPT !.listeners = SelectSeq(@, LAMBDA l : l # [k |-> k, x |-> x])]

\* buf.length of a buffer kept as runs
Bytes(segs) ==
    LET n[i \in 0..Len(segs)] == IF i = 0 THEN 0 ELSE n[i - 1] + segs[i].n
    IN  n[Len(segs)]

\* buffers the caller receives: runs of bytes, each the payload of an inbound frame
\* or a whole raw frame
Payload(t, f) ==
    IF PayloadLen(t, f) = 0 THEN <<>>
    ELSE <<[id |-> f.id, n |-> PayloadLen(t, f), raw |-> FALSE]>>

Raw(frames) == [i \in 1..Len(frames) |-> [id |-> frames[i].id, n |-> frames[i].len, raw |-> TRUE]]


(***************************************************************************)
(* Promises.  Settling a settled promise does nothing.                     *)
(***************************************************************************)
\* a slip: the socket is closed with its listeners still attached
closeSocketKeepsListeners(m, x) ==
    setTimeout([m EXCEPT !.writes = @ \cup {[k |-> "end", x |-> x]},
                         !.ex[x].dis = "closing"],
               x, "close")

\* closeSocket() with this.socket set: removes every 'data' / 'message' listener,
\* ends (TCP) or closes (UDP) the socket with a callback, and sets a timer
closeSocket(m, x) ==
    setTimeout([m EXCEPT !.listeners = <<>>,
                         !.writes = @ \cup {[k |-> "end", x |-> x]},
                         !.ex[x].dis = "closing"],
               x, "close")

\* disconnect() after its try / catch around executeCmd(CMD_EXIT): whatever the
\* outcome, closeSocket()
AfterExit(m, x) == IF m.ex[x].cmd = CMD_EXIT THEN closeSocket(m, x) ELSE m

\* resolve(true) of closeSocket(): disconnect() returns
CloseResolved(m, x) == [m EXCEPT !.ex[x].dis = "resolved"]

\* reject(err) of the promise the caller awaits
Reject(m, x, err) ==
    IF m.ex[x].st # "pending" THEN m
    ELSE AfterExit([m EXCEPT !.ex[x].st = "rejected", !.ex[x].err = err,
                             !.busy = IF @ = x THEN 0 ELSE @], x)

\* executeCmd after await writeMessage: the handshake takes the session id from
\* the reply, whatever the reply is
ExecuteCmdReply(m, x, f) ==
    IF m.ex[x].st # "pending" THEN m
    ELSE AfterExit([m EXCEPT !.ex[x].st = "resolved", !.ex[x].reply = f,
                             !.busy = IF @ = x THEN 0 ELSE @,
                             !.sessionId = IF m.ex[x].cmd = CMD_CONNECT THEN f.sess ELSE @],
                   x)

\* resolve({data, err}) of readWithBuffer
Finish(m, x, data, err) ==
    IF m.ex[x].st # "pending" THEN m
    ELSE [m EXCEPT !.ex[x].st = "resolved", !.ex[x].data = data, !.ex[x].err = err,
                   !.busy = IF @ = x THEN 0 ELSE @]

\* the chunk requests readWithBuffer sends: numberChunks + 1 of them
ChunkRequests(t, sid, rid, size) ==
    LET numberChunks == size \div MAX_CHUNK
        remain == size % MAX_CHUNK
    IN  [i \in 1..(numberChunks + 1) |->
            LET start == (i - 1) * MAX_CHUNK
                len == IF i = numberChunks + 1 THEN remain ELSE MAX_CHUNK
            IN  [start |-> start, size |-> len,
                 hdr |-> SentHeader(t, CMD_DATA_RDY, sid, rid + i, LE32(start) \o LE32(len))]]

\* TCP arms a 10000 ms timer on entering chunked mode; UDP declares the variable
\* and sets it only in the handler
FirstTimer(t) == t = "tcp"

\* the requests of the loop that sendChunkRequest writes: those before the first
\* one whose header the builder refuses
Issued(reqs, sid, rid) ==
    Cardinality({k \in 1..Len(reqs) :
                    \A i \in 1..k : ~HeaderThrows(SessionField(sid), rid + i)})

\* readWithBuffer, chunked mode: the closure's variables, the handler, the requests.
\* When sendChunkRequest throws, the loop ends there: on TCP the catch block
\* rejects, on UDP the loop is outside every try and the promise is left pending
Chunked(m, x, head) ==
    LET size == head.size
        reqs == ChunkRequests(tp, m.sessionId, m.replyId, size)
        n == Issued(reqs, m.sessionId, m.replyId)
        thrown == n < Len(reqs)
        m1 == [m EXCEPT !.ex[x].chunked = TRUE, !.ex[x].size = size,
                        !.ex[x].totalPackets =
                            (size \div MAX_CHUNK) + (IF size % MAX_CHUNK > 0 THEN 1 ELSE 0),
                        !.ex[x].requests = SubSeq(reqs, 1, n),
                        !.listeners = Append(@, [k |-> "rwb", x |-> x]),
                        !.replyId = @ + (IF thrown THEN n + 1 ELSE n),
                        !.lastSent = IF n = 0 THEN @ ELSE reqs[n].hdr]
        m2 == IF FirstTimer(tp) THEN setTimeout(m1, x, "first") ELSE m1
    IN  IF thrown /\ tp = "tcp" THEN Reject(m2, x, "RangeError") ELSE m2

\* readWithBuffer after await requestData
ReadReply(m, x, reply) ==
    LET head == reply[1]
    IN  IF head.cmd = CMD_DATA
        THEN Finish(m, x, Payload(tp, head) \o Raw(Tail(reply)), "null")
        ELSE IF head.cmd = CMD_PREPARE_DATA \/ (tp = "udp" /\ head.cmd = CMD_ACK_OK)
        THEN IF PayloadLen(tp, head) < 5
             THEN IF tp = "tcp" THEN Reject(m, x, "RangeError") ELSE m
             ELSE Chunked(m, x, head)
        ELSE Reject(m, x, "UNHANDLED COMMAND")

\* resolve / reject of requestData's promise, with readWithBuffer's continuation
ResolveRequest(m, x, reply) ==
    IF m.ex[x].rd # "pending" THEN m
    ELSE ReadReply([m EXCEPT !.ex[x].rd = "resolved", !.ex[x].got = reply], x, reply)

RejectRequest(m, x, err) ==
    IF m.ex[x].rd # "pending" THEN m
    ELSE Reject([m EXCEPT !.ex[x].rd = "rejected"], x, err)

\* requestData's internalCallback
RequestCallback(m, x, reply) ==
    ResolveRequest(clearTimeout(removeListener(m, "rd", x), x, "rd"), x, reply)

\* readWithBuffer's internalCallback
ReadCallback(m, x, data, err) ==
    Finish(clearTimeout(removeListener(m, "rwb", x), x, "rwb"), x, data, err)


(***************************************************************************)
(* The listeners on the socket's 'data' / 'message' event.                 *)
(***************************************************************************)
\* writeMessage: once(...), whatever the frame is
OnWriteMessage(m, x, f) ==
    ExecuteCmdReply(clearTimeout(removeListener(m, "wm", x), x, "wm"), x, f)

\* requestData's handleOnData
OnRequestDataTCP(m, x, f) ==
    LET m0 == [m EXCEPT !.ex[x].replyBuffer = Append(@, f)]
        m1 == clearTimeout(m0, x, "rd")
    IN  IF checkNotEventTCP(f) THEN m0
        ELSE IF m0.ex[x].replyBuffer[1].cmd = CMD_DATA
        THEN setTimeout(m1, x, "data")
        ELSE IF PacketLength(f) > 8
        THEN RequestCallback(setTimeout(m1, x, "recv"), x, <<f>>)
        ELSE setTimeout(m1, x, "recv")

OnRequestDataUDP(m, x, f) ==
    LET m1 == setTimeout(clearTimeout(m, x, "rd"), x, "recv")
    IN  IF checkNotEventUDP(f) THEN m
        ELSE IF f.len >= 13 THEN RequestCallback(m1, x, <<f>>)
        ELSE m1

\* readWithBuffer's handleOnData, TCP: one logical chunk is complete when the
\* payloads collected since the last one add up to the chunk and 8 bytes more;
\* the last one resolves with totalBuffer, which has just been emptied
OnReadTCP(m, x, f) ==
    LET e == m.ex[x]
        m1 == setTimeout(clearTimeout(m, x, "rwb"), x, "roll")
        totalBuffer == Append(e.totalBuffer, f)
        packetLength == PacketLength(totalBuffer[1])
        real == e.realTotal + (packetLength - 8)
        remain == e.size % MAX_CHUNK
        m2 == [m1 EXCEPT !.ex[x].totalBuffer = <<>>, !.ex[x].realTotal = 0,
                         !.ex[x].totalPackets = @ - 1,
                         !.ex[x].progress =
                             Append(@, <<e.size - (e.totalPackets - 1) * MAX_CHUNK, e.size>>)]
    IN  IF checkNotEventTCP(f) THEN m
        ELSE IF Bytes(Raw(totalBuffer)) < 8 + packetLength
        THEN [m1 EXCEPT !.ex[x].totalBuffer = totalBuffer]
        ELSE IF \/ e.totalPackets > 1 /\ real = MAX_CHUNK + 8
                \/ e.totalPackets = 1 /\ real = remain + 8
        THEN IF e.totalPackets - 1 <= 0 THEN ReadCallback(m2, x, Raw(m2.ex[x].totalBuffer), "null")
             ELSE m2
        ELSE [m1 EXCEPT !.ex[x].totalBuffer = Tail(totalBuffer), !.ex[x].realTotal = real]

\* readWithBuffer's handleOnData, UDP
OnReadUDP(m, x, f) ==
    LET e == m.ex[x]
        m1 == setTimeout(clearTimeout(m, x, "rwb"), x, "roll")
        totalBuffer == e.totalBuffer \o Payload("udp", f)
    IN  IF checkNotEventUDP(f) THEN m
        ELSE CASE f.cmd = CMD_PREPARE_DATA -> m1
               [] f.cmd = CMD_DATA ->
                    [m1 EXCEPT !.ex[x].totalBuffer = totalBuffer,
                               !.ex[x].progress = Append(@, <<Bytes(totalBuffer), e.size>>)]
               [] f.cmd = CMD_ACK_OK ->
                    IF Bytes(e.totalBuffer) = e.size
                    THEN ReadCallback(m1, x, e.totalBuffer, "null")
                    ELSE m1
               [] OTHER -> ReadCallback(m1, x, <<>>, "ERROR")

\* a slip: the filter delivers whatever passes the operation-code test
EventWidthAny(t, f) == TRUE

\* the length test of the real-time filter
EventWidth(t, f) == IF t = "tcp" THEN f.len > 16 ELSE f.len = 18

\* getRealTimeLogs' listener
OnRealTime(m, x, f) ==
    IF IsEvent(tp, f) /\ EventWidth(tp, f) THEN [m EXCEPT !.delivered = @ + 1] ELSE m

OnFrame(m, l, f) ==
    CASE l.k = "wm" -> OnWriteMessage(m, l.x, f)
      [] l.k = "rd" -> IF tp = "tcp" THEN OnRequestDataTCP(m, l.x, f)
                       ELSE OnRequestDataUDP(m, l.x, f)
      [] l.k = "rwb" -> IF tp = "tcp" THEN OnReadTCP(m, l.x, f) ELSE OnReadUDP(m, l.x, f)
      [] OTHER -> OnRealTime(m, l.x, f)

\* emit: the listeners registered at the time of the call, in registration order
RECURSIVE Emit(_, _, _)
Emit(m, ls, f) ==
    IF ls = <<>> THEN m ELSE Emit(OnFrame(m, Head(ls), f), Tail(ls), f)


(***************************************************************************)
(* The transport's operations and the events of its socket and timers.     *)
(***************************************************************************)
InitTransport ==
    /\ InitOrchVars
    /\ tp \in {"tcp", "udp"}
    /\ timeout = DefaultTimeout
    /\ IdleTransport
    /\ codec = NoCodec

\* commands sent through executeCmd: the handshake and an ordinary one
Commands == {CMD_CONNECT, CMD_FREE_DATA}

\* the caller awaits each operation before it starts the next, and disconnect()
\* is the last one it calls on the transport
CallerReady ==
    /\ busy = 0
    /\ Len(ex) < MaxOps
    /\ \A y \in DOMAIN ex : ex[y].cmd # CMD_EXIT

\* a slip: the handshake keeps the counter
HandshakeCounterKept(rid) == rid

\* this.replyId = 0 of the handshake
HandshakeCounter(rid) == 0

\* executeCmd(command, ''): the handshake zeroes the session and the counter, any
\* other command increments the counter; then writeMessage registers its listener
\* and writes.  op tells which step of getUsers / getAttendances awaits it
executeCmd(m, command, op) ==
    LET x == Len(m.ex) + 1
        sid == IF command = CMD_CONNECT THEN 0 ELSE m.sessionId
        rid == IF command = CMD_CONNECT THEN HandshakeCounter(m.replyId) ELSE m.replyId + 1
        e == [NewExchange("cmd", command) EXCEPT !.op = op]
        m0 == [m EXCEPT !.sessionId = sid, !.replyId = rid]
    IN  IF HeaderThrows(SessionField(sid), rid)
        THEN [m0 EXCEPT !.ex = Append(@, [e EXCEPT
                                    !.st = IF tp = "tcp" THEN "pending" ELSE "rejected",
                                    !.err = IF tp = "tcp" THEN "none" ELSE "RangeError"]),
                        !.busy = IF tp = "tcp" THEN x ELSE 0]
        ELSE [m0 EXCEPT !.ex = Append(@, e),
                        !.busy = x,
                        !.listeners = Append(@, [k |-> "wm", x |-> x]),
                        !.writes = @ \cup {[k |-> "wm", x |-> x]},
                        !.lastSent = SentHeader(tp, command, sid, rid, <<>>)]

ExecuteCmd(command) ==
    /\ CallerReady
    /\ Becomes(executeCmd(Now, command, NoOp))
    /\ UNCHANGED <<tp, timeout, lastFrame, nframes>>
    /\ UNCHANGED <<orchVars, codec>>

\* disconnect(): executeCmd(CMD_EXIT, '') increments the counter, registers its
\* listener and writes; closeSocket() follows when that exchange has settled.  A
\* header the builder refuses is caught by UDP's executeCmd and leaves TCP's
\* promise pending
Disconnect ==
    /\ CallerReady
    /\ LET x == Len(ex) + 1
           rid == replyId + 1
           m0 == [Now EXCEPT !.replyId = rid,
                             !.ex = Append(@, NewExchange("cmd", CMD_EXIT)),
                             !.busy = x]
       IN  IF HeaderThrows(SessionField(sessionId), rid)
           THEN IF tp = "tcp" THEN Becomes(m0) ELSE Becomes(Reject(m0, x, "RangeError"))
           ELSE Becomes([m0 EXCEPT
                            !.listeners = Append(@, [k |-> "wm", x |-> x]),
                            !.writes = @ \cup {[k |-> "wm", x |-> x]},
                            !.lastSent = SentHeader(tp, CMD_EXIT, sessionId, rid, <<>>)])
    /\ UNCHANGED <<tp, timeout, lastFrame, nframes>>
    /\ UNCHANGED <<orchVars, codec>>

\* readWithBuffer(reqData): increments the counter, then requestData registers its
\* handler and writes
readWithBuffer(m, op) ==
    LET x == Len(m.ex) + 1
        e == [NewExchange("read", CMD_DATA_WRRQ) EXCEPT !.op = op]
        m0 == [m EXCEPT !.replyId = @ + 1, !.busy = x]
    IN  IF HeaderThrows(SessionField(m.sessionId), m.replyId + 1)
        THEN [m0 EXCEPT !.ex = Append(@, e)]
        ELSE [m0 EXCEPT !.ex = Append(@, [e EXCEPT !.rd = "pending"]),
                        !.listeners = Append(@, [k |-> "rd", x |-> x]),
                        !.writes = @ \cup {[k |-> "rd", x |-> x]},
                        !.lastSent = SentHeader(tp, CMD_DATA_WRRQ, m.sessionId,
                                                m.replyId + 1, RequestData)]

ReadWithBuffer ==
    /\ CallerReady
    /\ Becomes(readWithBuffer(Now, NoOp))
    /\ UNCHANGED <<tp, timeout, lastFrame, nframes>>
    /\ UNCHANGED <<orchVars, codec>>

\* getUsers / getAttendances after each await, run when the turn that settled the
\* awaited exchange has ended: a rejection is returned as it is; after the first
\* freeData comes readWithBuffer, after readWithBuffer's result the second
\* freeData, after that the records with the read's err
RECURSIVE AfterAwait(_)
AfterAwait(m) ==
    LET xs == {x \in DOMAIN m.ex : m.ex[x].op.st = "awaited" /\ m.ex[x].st # "pending"}
    IN  IF xs = {} THEN m
        ELSE LET x == CHOOSE y \in xs : TRUE
                 e == m.ex[x]
                 go == [m EXCEPT !.ex[x].op.st = "next"]
             IN  IF e.st = "rejected"
                 THEN AfterAwait([m EXCEPT !.ex[x].op.st = "rejected", !.ex[x].op.err = e.err])
                 ELSE CASE e.op.step = 1 ->
                                AfterAwait(readWithBuffer(go, [e.op EXCEPT !.step = 2]))
                        [] e.op.step = 2 ->
                                AfterAwait(executeCmd(go, CMD_FREE_DATA, [e.op EXCEPT !.step = 3]))
                        [] OTHER ->
                                AfterAwait([m EXCEPT !.ex[x].op.st = "resolved",
                                                     !.ex[x].op.err = m.ex[x - 1].err])

\* getUsers() / getAttendances(cb) of a transport whose socket is set: freeData()
\* first
GetRecords(fn) ==
    /\ CallerReady
    /\ Becomes(AfterAwait(executeCmd(Now, CMD_FREE_DATA,
                                     [fn |-> fn, step |-> 1, st |-> "awaited", err |-> "none"])))
    /\ UNCHANGED <<tp, timeout, lastFrame, nframes>>
    /\ UNCHANGED <<orchVars, codec>>

\* getRealTimeLogs attaches its filter when the socket has no 'data' listener
\* (TCP), fewer than two 'message' listeners (UDP)
AttachFilter(t, count) == IF t = "tcp" THEN count = 0 ELSE count < 2

\* getRealTimeLogs(cb): increments the counter, writes the registration, attaches
\* the filter; its promise is resolved when it returns
GetRealTimeLogs ==
    /\ CallerReady
    /\ replyId' = replyId + 1
    /\ IF HeaderThrows(SessionField(sessionId), replyId + 1)
       THEN /\ ex' = Append(ex, [NewExchange("rt", CMD_REG_EVENT) EXCEPT
                                    !.st = "rejected", !.err = "RangeError"])
            /\ UNCHANGED <<listeners, lastSent>>
       ELSE /\ ex' = Append(ex, [NewExchange("rt", CMD_REG_EVENT) EXCEPT !.st = "resolved"])
            /\ lastSent' = SentHeader(tp, CMD_REG_EVENT, sessionId, replyId + 1, EventMask)
            /\ listeners' = IF AttachFilter(tp, Len(listeners))
                            THEN Append(listeners, [k |-> "rt", x |-> Len(ex) + 1])
                            ELSE listeners
    /\ UNCHANGED <<tp, timeout, sessionId, timers, writes, busy, lastFrame, delivered, nframes>>
    /\ UNCHANGED <<orchVars, codec>>


\* else if (this.timeout) / if (this.timeout) of writeMessage
TimeoutSet(ms) == ms # 0

\* the callback of socket.write / socket.send, and of socket.end / socket.close
WriteCallback(m, w, ok) ==
    LET m1 == [m EXCEPT !.writes = @ \ {w}]
    IN  IF w.k = "end"
        THEN CloseResolved(clearTimeout(m1, w.x, "close"), w.x)
        ELSE IF w.k = "wm"
        THEN IF ~ok THEN Reject(m1, w.x, "write error")
             ELSE IF TimeoutSet(timeout) THEN setTimeout(m1, w.x, "wm")
             ELSE m1
        ELSE IF ok THEN setTimeout(m1, w.x, "init")
             ELSE IF tp = "tcp"
             THEN setTimeout(RejectRequest(m1, w.x, "write error"), w.x, "init")
             ELSE RejectRequest(m1, w.x, "write error")

WriteDone(w, ok) ==
    /\ w \in writes
    /\ Becomes(AfterAwait(WriteCallback(Now, w, ok)))
    /\ UNCHANGED <<tp, timeout, lastFrame, nframes>>
    /\ UNCHANGED <<orchVars, codec>>

\* the callback of a timer
TimerCallback(m, t) ==
    LET m1 == [m EXCEPT !.timers = @ \ {t}]
        e == m.ex[t.x]
    IN  CASE t.k = "wm" -> Reject(m1, t.x, "TIMEOUT_ON_WRITING_MESSAGE")
          [] t.k = "init" ->
                RejectRequest(m1, t.x, "TIMEOUT_IN_RECEIVING_RESPONSE_AFTER_REQUESTING_DATA")
          [] t.k = "recv" -> RejectRequest(m1, t.x, "TIMEOUT_ON_RECEIVING_REQUEST_DATA")
          [] t.k = "data" -> RequestCallback(m1, t.x, e.replyBuffer)
          [] t.k = "first" ->
                Finish(m1, t.x, Raw(e.totalBuffer), "TIMEOUT WHEN RECEIVING PACKET")
          [] t.k = "close" -> CloseResolved(m1, t.x)
          [] OTHER ->
                ReadCallback(m1, t.x,
                             IF tp = "tcp" THEN Raw(e.totalBuffer) ELSE e.totalBuffer,
                             "TIMEOUT")

TimerFire(t) ==
    /\ t \in timers
    /\ Becomes(AfterAwait(TimerCallback(Now, t)))
    /\ UNCHANGED <<tp, timeout, lastFrame, nframes>>
    /\ UNCHANGED <<orchVars, codec>>

\* the data frames the device has delivered to a chunked read that is under way
Delivered(m, f) ==
    IF /\ m.busy > 0
       /\ m.ex[m.busy].chunked
       /\ f.cmd = CMD_DATA
    THEN [m EXCEPT !.ex[m.busy].devData = @ \o Payload(tp, f)]
    ELSE m

\* the socket emits 'data' / 'message' with one frame
DataEvent(frame) ==
    /\ nframes < MaxFrames
    /\ listeners # <<>>
    /\ LET f == [frame EXCEPT !.id = nframes + 1]
       IN  /\ lastFrame' = f
           /\ Becomes(AfterAwait(Emit(Delivered([Now EXCEPT !.delivered = 0], f), listeners, f)))
    /\ nframes' = nframes + 1
    /\ UNCHANGED <<tp, timeout>>
    /\ UNCHANGED <<orchVars, codec>>

\* the request of command exchange x is on the wire: its write has called back
\* without an error (an exchange whose header was refused has written nothing:
\* it is rejected with the RangeError, or pending with no listener)
Written(x) ==
    /\ [k |-> "wm", x |-> x] \notin writes
    /\ ex[x].err \notin {"write error", "RangeError"}
    /\ ex[x].st = "pending" => \E i \in DOMAIN listeners : listeners[i] = [k |-> "wm", x |-> x]

\* the device answers the request of exchange x, which the socket has written,
\* once: the socket emits the reply to that request
Reply(x, frame) ==
    /\ nframes < MaxFrames
    /\ x \in DOMAIN ex
    /\ ex[x].kind = "cmd" /\ Written(x) /\ ~ex[x].answered
    /\ LET f == [frame EXCEPT !.id = nframes + 1, !.re = x]
           m == [Now EXCEPT !.delivered = 0, !.ex[x].answered = TRUE]
       IN  /\ lastFrame' = f
           /\ Becomes(AfterAwait(Emit(Delivered(m, f), listeners, f)))
    /\ nframes' = nframes + 1
    /\ UNCHANGED <<tp, timeout>>
    /\ UNCHANGED <<orchVars, codec>>

Next ==
    \/ \E command \in Commands : ExecuteCmd(command)
    \/ ReadWithBuffer
    \/ GetRealTimeLogs
    \/ \E w \in writes, ok \in BOOLEAN : WriteDone(w, ok)
    \/ \E t \in timers : TimerFire(t)
    \/ \E frame \in InboundFrames(tp) : DataEvent(frame)

Spec == InitTransport /\ [][Next]_vars

\* The commands and the subscription alone, with the frames that tell their
\* listeners apart: an empty and a 10-byte reply, an event of either length, and
\* on TCP a registration-code frame that is no attendance event
CommandFrames(t) ==
    {Frame(t, CMD_ACK_OK, DevSession, 0, 0), Frame(t, CMD_ACK_OK, DevSession, 10, 0),
     Frame(t, CMD_REG_EVENT, EF_ATTLOG, 0, 0), Frame(t, CMD_REG_EVENT, EF_ATTLOG, 10, 0),
     Frame(t, CMD_REG_EVENT, DevSession, 10, 0)}

NextCmd ==
    \/ \E command \in Commands : ExecuteCmd(command)
    \/ GetRealTimeLogs
    \/ \E w \in writes, ok \in BOOLEAN : WriteDone(w, ok)
    \/ \E t \in timers : TimerFire(t)
    \/ \E frame \in CommandFrames(tp) : DataEvent(frame)

SpecCmd == InitTransport /\ [][NextCmd]_vars

\* Commands whose requests the device answers once each, at any time after it
\* received them
NextReplies ==
    \/ \E command \in Commands : ExecuteCmd(command)
    \/ \E w \in writes, ok \in BOOLEAN : WriteDone(w, ok)
    \/ \E t \in timers : TimerFire(t)
    \/ \E x \in DOMAIN ex, frame \in {Frame(tp, CMD_ACK_OK, DevSession, n, 0) : n \in {0, 10}} :
            Reply(x, frame)

SpecReplies == InitTransport /\ [][NextReplies]_vars

\* The operations that write frames under a session: commands, bulk reads with
\* their chunk requests, the subscription; the device answers with a 10-byte
\* reply, the announcement of a bulk transfer, or an event
SessionFrames(t) ==
    {Frame(t, CMD_ACK_OK, DevSession, 10, 2),
     Frame(t, CMD_PREPARE_DATA, DevSession, 8, 2),
     Frame(t, CMD_REG_EVENT, EF_ATTLOG, 10, 0)}

NextSession ==
    \/ \E command \in Commands : ExecuteCmd(command)
    \/ ReadWithBuffer
    \/ GetRealTimeLogs
    \/ \E w \in writes, ok \in BOOLEAN : WriteDone(w, ok)
    \/ \E t \in timers : TimerFire(t)
    \/ \E frame \in SessionFrames(tp) : DataEvent(frame)

SpecSession == InitTransport /\ [][NextSession]_vars

\* Commands and the teardown, with a timeout given to the constructor or none (0)
Timeouts == {0, DefaultTimeout}

InitTeardown ==
    /\ InitOrchVars
    /\ tp \in {"tcp", "udp"}
    /\ timeout \in Timeouts
    /\ IdleTransport
    /\ codec = NoCodec

NextTeardown ==
    \/ \E command \in Commands : ExecuteCmd(command)
    \/ Disconnect
    \/ \E w \in writes, ok \in BOOLEAN : WriteDone(w, ok)
    \/ \E t \in timers : TimerFire(t)
    \/ \E frame \in CommandFrames(tp) : DataEvent(frame)

SpecTeardown == InitTeardown /\ [][NextTeardown]_vars

\* Every operation that attaches a listener, and then the disconnect
NextClose ==
    \/ \E command \in Commands : ExecuteCmd(command)
    \/ ReadWithBuffer
    \/ GetRealTimeLogs
    \/ Disconnect
    \/ \E w \in writes, ok \in BOOLEAN : WriteDone(w, ok)
    \/ \E t \in timers : TimerFire(t)
    \/ \E frame \in SessionFrames(tp) : DataEvent(frame)

SpecClose == InitTransport /\ [][NextClose]_vars

\* getUsers and getAttendances alone: the device acknowledges, sends the records
\* at once or announces a chunked transfer
RecordFrames(t) ==
    {Frame(t, CMD_ACK_OK, DevSession, 0, 0),
     Frame(t, CMD_DATA, DevSession, 6, 0),
     Frame(t, CMD_PREPARE_DATA, DevSession, 8, 2)}

NextRecords ==
    \/ \E fn \in {"getUsers", "getAttendances"} : GetRecords(fn)
    \/ \E w \in writes, ok \in BOOLEAN : WriteDone(w, ok)
    \/ \E t \in timers : TimerFire(t)
    \/ \E frame \in RecordFrames(tp) : DataEvent(frame)

SpecRecords == InitTransport /\ [][NextRecords]_vars

\* Bulk reads late in a session: the counter starts where that many commands
\* have left it, and the device announces sizes around the multiples of MAX_CHUNK
StartIds == {0, 65533}

ChunkSizes == {0, 1, MAX_CHUNK - 1, MAX_CHUNK, MAX_CHUNK + 1, 2 * MAX_CHUNK,
               2 * MAX_CHUNK + 7}

ChunkFrames(t) ==
    {Frame(t, CMD_PREPARE_DATA, DevSession, 8, sz) : sz \in ChunkSizes}
    \cup {Frame(t, CMD_DATA, DevSession, 2, 0)}

InitChunk ==
    /\ InitOrchVars
    /\ tp \in {"tcp", "udp"}
    /\ timeout = DefaultTimeout
    /\ sessionId = DevSession
    /\ replyId \in StartIds
    /\ listeners = <<>>
    /\ timers = {}
    /\ writes = {}
    /\ ex = <<>>
    /\ busy = 0
    /\ lastSent = NoSent
    /\ lastFrame = NoFrame
    /\ delivered = 0
    /\ nframes = 0
    /\ codec = NoCodec

NextChunk ==
    \/ ReadWithBuffer
    \/ \E w \in writes, ok \in BOOLEAN : WriteDone(w, ok)
    \/ \E t \in timers : TimerFire(t)
    \/ \E frame \in ChunkFrames(tp) : DataEvent(frame)

SpecChunk == InitChunk /\ [][NextChunk]_vars

\* Bulk reads of one chunk and of two: the device announces the size, then sends
\* for each chunk request a preamble (CMD_PREPARE_DATA, 8 bytes) and the data
\* (CMD_DATA), in one frame or in several
ProgressSizes == {2, MAX_CHUNK + 1}

ProgressFrames(t) ==
    {Frame(t, CMD_PREPARE_DATA, DevSession, 8, sz) : sz \in ProgressSizes}
    \cup {Frame(t, CMD_DATA, DevSession, n, 0) : n \in {1, 2, MAX_CHUNK}}
    \cup {Frame(t, CMD_ACK_OK, DevSession, 0, 0)}

NextProgress ==
    \/ ReadWithBuffer
    \/ \E w \in writes, ok \in BOOLEAN : WriteDone(w, ok)
    \/ \E t \in timers : TimerFire(t)
    \/ \E frame \in ProgressFrames(tp) : DataEvent(frame)

\* early in a session
InitProgress == InitChunk /\ replyId = 0

SpecProgress == InitProgress /\ [][NextProgress]_vars


(***************************************************************************)
(* Claims about one transport (checked under Spec and SpecCmd).            *)
(***************************************************************************)
Exchanges == DOMAIN ex

Filters == {i \in DOMAIN listeners : listeners[i].k = "rt"}

Attached(k, x) == \E i \in DOMAIN listeners : listeners[i] = [k |-> k, x |-> x]

\* C3: a chunked read that resolves with err = null returns exactly the payload
\* bytes of the data frames the device sent during the transfer, in arrival
\* order, and they are as many as the announced size
C3_ChunkedResult ==
    \A x \in Exchanges :
        (ex[x].chunked /\ ex[x].st = "resolved" /\ ex[x].err = "null")
            => /\ ex[x].data = ex[x].devData
               /\ Bytes(ex[x].data) = ex[x].size

\* C4: a chunked read that has not settled has a timer pending that settles it,
\* so it ends also when the device sends nothing more
C4_ChunkedHasTimer ==
    \A x \in Exchanges :
        (ex[x].chunked /\ ex[x].st = "pending")
            => \E t \in timers : t.x = x /\ t.k \in {"first", "roll"}

\* C5: once a bulk read has settled, neither the handler of its negotiation nor
\* the handler of its chunked phase is attached to the socket
C5_HandlersRemoved ==
    \A x \in Exchanges :
        /\ ex[x].rd \in {"resolved", "rejected"} => ~Attached("rd", x)
        /\ (ex[x].kind = "read" /\ ex[x].st # "pending")
                => ~Attached("rd", x) /\ ~Attached("rwb", x)

\* C6: with a subscription active, no command resolves with an event frame as its
\* reply (so no handshake takes its session id from one), and no frame that
\* answered a command reaches onEvent
C6_EventsNotReplies ==
    \A x \in Exchanges :
        (ex[x].kind = "cmd" /\ ex[x].st = "resolved"
            /\ \E i \in Filters : listeners[i].x < x)
            => /\ ~IsEvent(tp, ex[x].reply)
               /\ (ex[x].reply = lastFrame => delivered = 0)

C8_OneFilter == Cardinality(Filters) <= 1 /\ delivered <= 1

\* C10: a handshake frame is written with sequence field 1 and session field 0,
\* and both stored fields are 0 when it is encoded, whatever they were before; the
\* session id changes again only with the handshake's reply
C10_HandshakeResets ==
    lastSent.cmd = CMD_CONNECT
        => /\ lastSent.seq = 1
           /\ lastSent.sess = 0
           /\ replyId = 0
           /\ \/ sessionId = 0
              \/ ex[Len(ex)].st = "resolved" /\ sessionId = ex[Len(ex)].reply.sess

\* a second handshake, issued with the session id of the first one's reply stored
C10_Witness ==
    /\ Len(ex) = 2
    /\ ex[1].cmd = CMD_CONNECT /\ ex[1].st = "resolved" /\ ex[1].reply.sess = DevSession
    /\ ex[2].cmd = CMD_CONNECT
    /\ lastSent = [cmd |-> CMD_CONNECT, sess |-> 0, seq |-> 1]
    /\ sessionId = 0

\* the latest handshake (0: none yet)
HandshakeOf ==
    LET hs == {x \in Exchanges : ex[x].cmd = CMD_CONNECT}
    IN  IF hs = {} THEN 0 ELSE CHOOSE x \in hs : \A y \in hs : y <= x

\* the reply of the latest handshake has been received
Established == HandshakeOf # 0 /\ ex[HandshakeOf].st = "resolved"

\* C11: once the reply of the latest handshake has been received, the stored
\* session id is the session field of that reply, every step that is not a new
\* handshake leaves it so, and every frame such a step writes (command, bulk
\* request, chunk request, event registration) carries it in its session field
C11_SessionCarried ==
    [][(Established /\ ~(Len(ex') > Len(ex) /\ ex'[Len(ex')].cmd = CMD_CONNECT))
        => LET sess == ex[HandshakeOf].reply.sess
           IN  /\ sessionId = sess
               /\ sessionId' = sess
               /\ lastSent' # lastSent => lastSent'.sess = sess
               /\ \A x \in DOMAIN ex' :
                    (x <= Len(ex) /\ ex'[x].requests # ex[x].requests)
                        => \A i \in DOMAIN ex'[x].requests :
                                ex'[x].requests[i].hdr.sess = sess]_vars

\* a bulk read started after the handshake's reply has sent its chunk request
C11_Witness ==
    /\ Len(ex) = 2
    /\ ex[1].cmd = CMD_CONNECT /\ ex[1].st = "resolved" /\ ex[1].reply.sess = DevSession
    /\ ex[2].chunked /\ Len(ex[2].requests) = 1
    /\ lastSent.cmd = CMD_DATA_RDY /\ lastSent.sess = DevSession
    /\ sessionId = DevSession

\* C12: a bulk read in chunked mode has issued floor(S / MAX_CHUNK) + 1 chunk
\* requests for the announced size S: the first floor(S / MAX_CHUNK) ask for
\* MAX_CHUNK bytes each, the last for S mod MAX_CHUNK bytes (also when that is 0),
\* each starts where the one before ends, and their lengths add up to S
C12_ChunkLaw ==
    \A x \in Exchanges :
        ex[x].chunked =>
            LET S == ex[x].size
                n == S \div MAX_CHUNK
                r == ex[x].requests
                upTo[i \in 0..Len(r)] == IF i = 0 THEN 0 ELSE upTo[i - 1] + r[i].size
            IN  /\ Len(r) = n + 1
                /\ \A i \in 1..Len(r) :
                        /\ r[i].start = (i - 1) * MAX_CHUNK
                        /\ r[i].size = IF i <= n THEN MAX_CHUNK ELSE S % MAX_CHUNK
                        /\ r[i].start = upTo[i - 1]
                /\ upTo[Len(r)] = S

\* C13: when a non-event frame whose operation code is none of prepare,
\* direct-data and ack-ok reaches a chunked transfer that is under way, the
\* transfer ends in that step with the protocol error, and its handler is off
\* the socket, so nothing more is accumulated
C13_UnknownCodeAborts ==
    [][\A x \in Exchanges :
        (/\ ex[x].chunked /\ ex[x].st = "pending" /\ Attached("rwb", x)
         /\ nframes' = nframes + 1
         /\ ~IsEvent(tp, lastFrame')
         /\ lastFrame'.cmd \notin {CMD_PREPARE_DATA, CMD_DATA, CMD_ACK_OK})
            => /\ ex'[x].st = "resolved"
               /\ ex'[x].err = "ERROR"
               /\ \A i \in DOMAIN listeners' : listeners'[i] # [k |-> "rwb", x |-> x]]_vars

\* C24: while a chunked transfer is under way onProgress is invoked once for
\* each unit of data (each data frame that reaches the handler on UDP, each
\* completed chunk on TCP) and at no other time; its second argument is the
\* announced size, its first argument is the number of payload bytes of the data
\* frames received so far, and it is greater than at the invocation before
C24_Progress ==
    [][\A x \in Exchanges : ex[x].st = "pending" =>
        LET before == ex[x].progress
            after == ex'[x].progress
            unit == IF tp = "udp"
                    THEN /\ nframes' = nframes + 1
                         /\ lastFrame'.cmd = CMD_DATA
                         /\ Attached("rwb", x)
                    ELSE ex'[x].totalPackets < ex[x].totalPackets
        IN  /\ Len(after) \in {Len(before), Len(before) + 1}
            /\ Len(after) > Len(before) <=> (ex[x].chunked /\ unit)
            /\ Len(after) > Len(before) =>
                    /\ after[Len(after)][2] = ex[x].size
                    /\ after[Len(after)][1] = Bytes(ex'[x].devData)
                    /\ Len(before) > 0 => after[Len(after)][1] > before[Len(before)][1]]_vars

\* the request of an executeCmd exchange has been written and no frame has come
Unanswered(x) ==
    /\ ex[x].kind = "cmd"
    /\ ex[x].st = "pending"
    /\ Attached("wm", x)
    /\ [k |-> "wm", x |-> x] \notin writes

\* C18: an executeCmd exchange whose request is written and not answered has its
\* write-timeout timer pending, set with 2000 for the handshake and the exit and
\* with the configured timeout for every other operation, whatever the
\* configured timeout is
C18_WriteTimeout ==
    \A x \in Exchanges :
        Unanswered(x) =>
            \E t \in timers :
                /\ t.x = x /\ t.k = "wm" /\ t.live
                /\ t.ms = IF ex[x].cmd \in {CMD_CONNECT, CMD_EXIT} THEN 2000 ELSE timeout

\* C19: a disconnect that has not returned has something pending that takes it
\* on without the device: the callback of its write, the write-timeout timer of
\* its exit exchange, or the callback or the timer of closeSocket; and once the
\* exit exchange has settled the socket close is initiated
C19_DisconnectCompletes ==
    \A x \in Exchanges :
        ex[x].cmd = CMD_EXIT =>
            /\ ex[x].dis # "resolved"
                => \/ \E w \in writes : w.x = x
                   \/ \E t \in timers : t.x = x /\ t.live /\ t.k \in {"wm", "close"}
            /\ ex[x].st # "pending" => ex[x].dis \in {"closing", "resolved"}

\* C27: the buffer requestData resolves with holds no real-time event frame: no
\* event is taken for the awaited response, none contributes bytes to the buffer
\* and none stands at its head, where the response is classified
C27_NoEventInResponse ==
    \A x \in Exchanges :
        ex[x].rd = "resolved" =>
            \A i \in DOMAIN ex[x].got : ~IsEvent(tp, ex[x].got[i])

\* the timers of a chunked transfer's window that are pending
Window(ts, x) == {t \in ts : t.x = x /\ t.k \in {"first", "roll"} /\ t.live}

\* C28: in a chunked transfer that is under way, every non-event frame that
\* reaches the handler and does not end the transfer leaves exactly one window
\* timer pending, a fresh one; and when a window timer fires the transfer
\* resolves, with an error and with the payload bytes of the data frames received
\* so far as its data
C28_RollingTimeout ==
    [][\A x \in Exchanges : (ex[x].chunked /\ ex[x].st = "pending") =>
        /\ (/\ nframes' = nframes + 1
            /\ ~IsEvent(tp, lastFrame')
            /\ Attached("rwb", x)
            /\ ex'[x].st = "pending")
                => \E t \in Window(timers', x) : t.k = "roll" /\ Window(timers', x) = {t}
        /\ (nframes' = nframes /\ \E t \in Window(timers, x) : t \notin timers')
                => /\ ex'[x].st = "resolved"
                   /\ ex'[x].err \notin {"null", "none"}
                   /\ ex'[x].data = ex[x].devData]_vars

\* C29: when the response requestData resolved with carries CMD_ACK_OK or
\* CMD_PREPARE_DATA (and the 5 payload bytes the size is read from), the read is
\* in chunked mode with the size the payload announces; and the read has failed
\* as an unhandled command only if the response carries none of CMD_DATA,
\* CMD_ACK_OK and CMD_PREPARE_DATA
C29_AckOrPrepareChunks ==
    \A x \in Exchanges :
        ex[x].rd = "resolved" =>
            LET head == ex[x].got[1]
            IN  /\ (head.cmd \in {CMD_ACK_OK, CMD_PREPARE_DATA} /\ PayloadLen(tp, head) >= 5)
                        => ex[x].chunked /\ ex[x].size = head.size
                /\ ex[x].err = "UNHANDLED COMMAND"
                        => head.cmd \notin {CMD_DATA, CMD_ACK_OK, CMD_PREPARE_DATA}

\* C30: when the response requestData resolved with carries CMD_DATA, the read
\* has resolved with err = null in that step, no chunk request was sent, neither
\* of its handlers is attached, and its data are the payload of that response
\* and nothing else, so that the bytes decoded from offset 4 on are the payload
\* without its 4-byte size field
C30_DirectData ==
    \A x \in Exchanges :
        (ex[x].rd = "resolved" /\ ex[x].got[1].cmd = CMD_DATA) =>
            /\ ex[x].st = "resolved"
            /\ ex[x].err = "null"
            /\ ~ex[x].chunked
            /\ ex[x].requests = <<>>
            /\ ~Attached("rd", x)
            /\ ~Attached("rwb", x)
            /\ ex[x].data = Payload(tp, ex[x].got[1])

\* C31: every pending timer of an exchange belongs to a promise that has not
\* settled: a timer of writeMessage to a pending executeCmd, a timer of
\* requestData to a pending requestData, a timer of readWithBuffer's chunked
\* phase to a pending readWithBuffer
C31_NoTimerAfterSettle ==
    \A t \in timers :
        CASE ClosureOf(t.k) = "wm" -> ex[t.x].st = "pending"
          [] ClosureOf(t.k) = "rd" -> ex[t.x].rd = "pending"
          [] ClosureOf(t.k) = "rwb" -> ex[t.x].st = "pending"
          [] OTHER -> TRUE

\* C32: a step writes at most one request frame.  An operation writes its
\* request only when no request frame written before is outstanding: no command
\* or bulk request whose exchange is pending, no chunk request of a transfer
\* under way, no registration written with no frame received since.  A bulk read
\* writes a chunk request only once its bulk request is answered and no chunk
\* request of its own is unanswered
C32_OneOutstanding ==
    [][LET started == Len(ex') > Len(ex) /\ lastSent' # lastSent
           chunks(x) == Len(ex'[x].requests) - Len(ex[x].requests)
           outstanding(x) ==
                \/ ex[x].kind \in {"cmd", "read"} /\ ex[x].st = "pending"
                \/ ex[x].kind = "rt" /\ ex[x].st = "resolved" /\ nframes = 0
       IN  /\ started => \A x \in Exchanges : ~outstanding(x)
           /\ \A x \in Exchanges :
                /\ chunks(x) <= 1
                /\ chunks(x) > 0 => ex'[x].rd = "resolved" /\ ex[x].requests = <<>>]_vars

\* C36: a getUsers / getAttendances call is three exchanges in a row: a free-data
\* command, the bulk read, a free-data command, the second free-data being sent
\* in the turn in which the bulk read settles, whatever its outcome; when the
\* first free-data exchange fails the call has rejected with its error and has
\* sent no bulk request
C36_FreeDataAround ==
    \A x \in Exchanges :
        LET o == ex[x].op
            next(cmd, step) ==
                /\ x + 1 \in Exchanges
                /\ ex[x + 1].cmd = cmd
                /\ ex[x + 1].op.fn = o.fn /\ ex[x + 1].op.step = step
        IN  /\ o.step = 1 =>
                /\ ex[x].cmd = CMD_FREE_DATA
                /\ ex[x].st = "resolved" => next(CMD_DATA_WRRQ, 2)
                /\ ex[x].st = "rejected" =>
                        /\ o.st = "rejected" /\ o.err = ex[x].err
                        /\ ~next(CMD_DATA_WRRQ, 2)
            /\ o.step = 2 =>
                /\ x > 1 /\ ex[x - 1].op.step = 1 /\ ex[x - 1].st = "resolved"
                /\ ex[x].st # "pending" => next(CMD_FREE_DATA, 3)
            /\ o.step = 3 =>
                /\ x > 1 /\ ex[x - 1].op.step = 2 /\ ex[x - 1].st # "pending"

\* C37: an executeCmd call that has resolved has resolved with the device's reply
\* to its own request, and no inbound frame is the result of two calls
C37_OwnReply ==
    \A x \in Exchanges :
        (ex[x].kind = "cmd" /\ ex[x].st = "resolved") =>
            /\ ex[x].reply.re = x
            /\ \A y \in Exchanges \ {x} :
                    (ex[y].kind = "cmd" /\ ex[y].st = "resolved")
                        => ex[y].reply.id # ex[x].reply.id

\* getRealTimeLogs has been called and has returned
Subscribed == \E x \in Exchanges : ex[x].kind = "rt" /\ ex[x].st = "resolved"

\* C40: once getRealTimeLogs has returned a filter is attached to the socket, and
\* every event frame the socket emits from then on is handed to onEvent
C40_EventsReachOnEvent ==
    /\ [](Subscribed => Filters # {})
    /\ [][(Subscribed /\ nframes' = nframes + 1
            /\ IsEvent(tp, lastFrame') /\ EventWidth(tp, lastFrame'))
           => delivered' >= 1]_vars

\* C26: closeSocket removes every 'data' / 'message' listener in the step in
\* which it initiates the close of the socket: from then on, with the close under
\* way or done, no listener of a command, a bulk read or the subscription is
\* attached
C26_ListenersRemoved ==
    \A x \in Exchanges :
        (ex[x].dis # "none" \/ [k |-> "end", x |-> x] \in writes) => listeners = <<>>

\* a subscription was attached, and the disconnect has closed the socket
C26_Witness ==
    /\ Len(ex) = 2
    /\ ex[1].kind = "rt" /\ ex[1].st = "resolved"
    /\ ex[2].cmd = CMD_EXIT /\ ex[2].dis = "closing"
    /\ [k |-> "end", x |-> 2] \in writes
    /\ listeners = <<>>

(***************************************************************************)
(* The session and the sequence counter alone, over long runs: what each   *)
(* operation does to sessionId and replyId and the header it writes.  The  *)
(* exchanges complete at once; listeners and timers are left out.          *)
(***************************************************************************)
\* operation codes of the frames sent with an incremented counter: a command, the
\* bulk write-request, a chunk request, the event registration
Increments == {CMD_FREE_DATA, CMD_DATA_WRRQ, CMD_DATA_RDY, CMD_REG_EVENT}

PayloadOf(command) ==
    CASE command = CMD_DATA_WRRQ -> RequestData
      [] command = CMD_DATA_RDY -> LE32(0) \o LE32(MAX_CHUNK)
      [] command = CMD_REG_EVENT -> EventMask
      [] OTHER -> <<>>

\* executeCmd(CMD_CONNECT) and its reply: zeroes both fields, builds and writes
\* the frame, then reads the session id from the reply
SeqHandshake ==
    /\ sessionId' = DevSession
    /\ replyId' = HandshakeCounter(replyId)
    /\ lastSent' = IF HeaderThrows(0, replyId') THEN lastSent
                   ELSE SentHeader(tp, CMD_CONNECT, 0, replyId', <<>>)
    /\ UNCHANGED <<tp, timeout, listeners, timers, writes, ex, busy, lastFrame, delivered, nframes>>
    /\ UNCHANGED <<orchVars, codec>>

\* this.replyId++, then the header builder; when the builder throws no frame is
\* written
SeqSend(command) ==
    /\ replyId < MaxReplyId
    /\ replyId' = replyId + 1
    /\ lastSent' = IF HeaderThrows(SessionField(sessionId), replyId') THEN lastSent
                   ELSE SentHeader(tp, command, sessionId, replyId', PayloadOf(command))
    /\ UNCHANGED <<tp, timeout, sessionId, listeners, timers, writes, ex, busy, lastFrame, delivered,
                   nframes>>
    /\ UNCHANGED <<orchVars, codec>>

NextSeq ==
    \/ SeqHandshake
    \/ \E command \in Increments : SeqSend(command)

\* the header fields written are the same on both transports (createTCPHeader
\* puts its prefix before the frame createUDPHeader's code builds)
InitSeq ==
    InitOrchVars /\ tp = "tcp" /\ timeout = DefaultTimeout /\ IdleTransport /\ codec = NoCodec

SpecSeq == InitSeq /\ [][NextSeq]_vars

\* C9: every frame sent with an incremented counter carries the previous frame's
\* sequence field plus 1 modulo 65536, however long the run
C9_SequenceAdvances ==
    [][(replyId' = replyId + 1 /\ lastSent # NoSent)
        => lastSent'.seq = (lastSent.seq + 1) % 65536]_vars

=============================================================================
